---- MODULE Spec2Model ----
(***************************************************************************)
(* The real-time conversation broker of vt-rust (src/src/websockets.rs)    *)
(* with the conversation store it drives (src/src/services/                *)
(* conversations.rs): the WsServer actor and its mailbox, the WsSession    *)
(* actors and the asynchronous tasks they spawn for inbound events.        *)
(***************************************************************************)
EXTENDS Integers, Sequences, FiniteSets, TLC

\* ------------------------------------------------------------------ bounds
\* Inbound text frames handled over all connections: under Spec (frames of
\* every kind) and under SpecSend ("message" frames only).
MaxEvents == 1
MaxSends == 2
\* Inbound frames under SpecHistory ("message" and "conversation_history").
MaxFetches == 2
\* HTTP requests to the signed endpoints under SpecAuth.
MaxRequests == 2
\* Rows the conversations table may hold.
MaxConvs == 2

\* ------------------------------------------------------------- the universe
\* Identities.  c1, c2 and p1 have a row in the users table; g has none
\* (Uuid::new_v4() draws from the whole UUID space).
Ids == {"c1", "c2", "p1", "g"}
NoId == "nil"
\* users.scope
Scope == [c1 |-> "client", c2 |-> "client", p1 |-> "provider"]
\* Connections (WsSession actors) the HTTP server may start.
Conns == {"k1", "k2"}
NoConn == "none"
Contents == {"hi", "yo"}
\* The `providers` parameter of new_conversation: absent, or a list of ids.
NoProviders == <<"absent">>
ProviderLists == {NoProviders, <<"p1">>, <<"c2", "p1">>}
\* Conversation ids an inbound frame may name (rows are numbered 1, 2, ...).
ConvIds == 1..MaxConvs
\* (page, limit) pairs of conversation_history frames.
HistoryArgs == {<<1, 1>>, <<2, 1>>, <<0, 1>>}
\* Shapes of the `params` object of a frame: "tagged" is the adjacently tagged
\* form {"event": <Variant>, "data": {...}} that WsEvent deserializes from,
\* "flat" is {conversation_id, content, ...} without the tag.
Shapes == {"tagged", "flat"}
\* What the request that opens a websocket presents as session credential.
CredKinds == {"missing", "malformed", "expired", "valid"}
NoCred == [kind |-> "missing", sub |-> NoId]
Creds == {NoCred, [kind |-> "malformed", sub |-> NoId]}
         \cup [kind : {"expired", "valid"}, sub : Ids]
\* The conversations table when the server starts: empty, or holding a
\* conversation created in an earlier run.
InitialStores ==
    {<<>>,
     <<[client |-> "c1", providers |-> <<"c2", "p1">>, last_message |-> "",
        updated |-> 0, conn |-> NoConn, no |-> 0]>>}

VARIABLES
    connState,      \* WsSession life cycle: new, starting, autosub, open, closed
    connId,         \* WsSession.id
    connCred,       \* the credential the opening request presented
    sessions,       \* WsServer.sessions: identity -> Recipient
    subs,           \* WsServer.conversation_subscriptions: conversation -> set
    mailbox,        \* the WsServer actor's mailbox (FIFO)
    tasks,          \* futures spawned by sessions and still running
    conversations,  \* table conversations, row i has id i
    messages,       \* table messages, in insertion order, row i has id i
    recv,           \* text frames written to each connection's socket
    events,         \* inbound frames handled so far
    clock,          \* Utc::now() / CURRENT_TIMESTAMP, a logical clock
    dbErr,          \* history: store calls that returned an error, by task
    indexChanged    \* history: tasks whose (un)subscription changed the index

\* The HTTP endpoints of src/src/main.rs and the tables they drive.
VARIABLES
    now,            \* Utc::now(), in seconds
    users,          \* table users: id -> row
    refresh_tokens, \* table refresh_tokens, a set of rows
    http,           \* HTTP requests being handled (async handlers)
    requests,       \* HTTP requests accepted so far
    reply,          \* the HTTP response sent last
    issued,         \* session credentials minted so far, in order
    probe           \* a function of utils.rs applied alone: input, result

authVars ==
    <<now, users, refresh_tokens, http, requests, reply, issued, probe>>

vars == <<connState, connId, connCred, sessions, subs, mailbox, tasks,
          conversations, messages, recv, events, clock, dbErr, indexChanged,
          now, users, refresh_tokens, http, requests, reply, issued,
          probe>>

wsVars == <<connState, connId, connCred, sessions, subs, mailbox, tasks,
            conversations, messages, recv, events, clock, dbErr,
            indexChanged>>

connVars == <<connState, connId, connCred>>
storeVars == <<conversations, messages>>

\* ------------------------------------------------------------------ helpers
Range(s) == {s[i] : i \in 1..Len(s)}

\* An outbound WsMessage.  `from` and `no` name the connection and the inbound
\* frame that caused it (not part of the wire format: they let a property
\* tell whose reply it is).
Ev(event, conv, msg, from, no) ==
    [event |-> event, conv |-> conv, msg |-> msg, from |-> from, no |-> no]
\* An "error" WsMessage with its params.message (`conv`, like `from` and `no`,
\* is not on the wire: the conversation the inbound frame named, 0 if none).
ErrorEv(message, conv, from, no) ==
    [event |-> "error", message |-> message, conv |-> conv, from |-> from,
     no |-> no]
\* A bare text frame (ctx.text of a diagnostic string); `conv` as in ErrorEv.
TextEv(text, conv, from, no) ==
    [event |-> "text", text |-> text, conv |-> conv, from |-> from,
     no |-> no]

\* A role lookup that takes every requester for a client.
ScopeUnchecked(user, dbOk) == "client"

\* SELECT scope FROM users WHERE id = $1, fetch_optional; every failure and a
\* missing row read as "unknown".
UserRole(user, dbOk) ==
    IF dbOk /\ user \in DOMAIN Scope THEN Scope[user] ELSE "unknown"

\* The providers list as given to the store: providers.unwrap_or_default().
ProvidersOrDefault(providers) ==
    IF providers = NoProviders THEN <<>> ELSE providers

\* Handler<BroadcastMessage> for WsSession: the frame is written to the
\* socket; a do_send to a stopped session is dropped.
SocketWrite(r, k, ev) ==
    IF connState[k] # "closed" THEN [r EXCEPT ![k] = Append(@, ev)] ELSE r

\* conversation_subscriptions has no entry for a key, or a set of user ids.
NoEntry == [present |-> FALSE, members |-> {}]
Entry(members) == [present |-> TRUE, members |-> members]

\* The rows of table users when the server starts: the identities of Scope,
\* each with the phone number and the Ed25519 public key it registered.
\* Numbers that start with "000123" are test numbers.
Phone == [c1 |-> "0001231", c2 |-> "5550002", p1 |-> "5550003"]
PublicKey == [c1 |-> "key-c1", c2 |-> "key-c2", p1 |-> "key-p1"]
InitialUsers ==
    [i \in DOMAIN Scope |->
        [phone_number |-> Phone[i], public_key |-> PublicKey[i],
         scope |-> Scope[i], verified |-> i # "c2"]]

\* A column that is NULL.
Null == -1
\* The time the server starts at.
Epoch == 1000

\* The rows of table refresh_tokens when the server starts: a token of c1
\* in use, and one of c2 that an operator has revoked.  Tokens are 64 random
\* characters; here they are numbered.
InitialTokens ==
    {[token |-> 1, user_id |-> "c1", is_revoked |-> FALSE,
      expires_at |-> Epoch - 1, last_used_at |-> Null],
     [token |-> 2, user_id |-> "c2", is_revoked |-> TRUE,
      expires_at |-> Null, last_used_at |-> Null]}

\* No function applied alone.
NoProbe == [fn |-> "none"]
\* No HTTP response yet.
NoReply == [no |-> 0, status |-> 0, body |-> ""]

\* The tables and the HTTP side after start-up.
AuthInit ==
    /\ now = Epoch
    /\ users = InitialUsers
    /\ refresh_tokens = InitialTokens
    /\ http = {}
    /\ requests = 0
    /\ reply = NoReply
    /\ issued = <<>>

\* The broker after WsServer::new, before any connection.
WsInit ==
    /\ connState = [k \in Conns |-> "new"]
    /\ connId = [k \in Conns |-> NoId]
    /\ connCred = [k \in Conns |-> NoCred]
    /\ sessions = [i \in Ids |-> NoConn]
    /\ subs = [c \in ConvIds |-> NoEntry]
    /\ mailbox = <<>>
    /\ tasks = {}
    /\ conversations \in InitialStores
    /\ messages = <<>>
    /\ recv = [k \in Conns |-> <<>>]
    /\ events = 0
    /\ clock = 1
    /\ dbErr = {}
    /\ indexChanged = {}

Init == WsInit /\ AuthInit /\ probe = NoProbe

\* Messages to the WsServer actor.  `no` names the inbound frame that caused
\* the message (0: the connection's start).
MConnect(id, conn) == [type |-> "Connect", id |-> id, conn |-> conn]
MDisconnect(id) == [type |-> "Disconnect", id |-> id]
MSubscribe(user, conv, no) ==
    [type |-> "Subscribe", user |-> user, conv |-> conv, no |-> no]
MUnsubscribe(user, conv, no) ==
    [type |-> "Unsubscribe", user |-> user, conv |-> conv, no |-> no]
MBroadcast(ev) == [type |-> "BroadcastMessage", ev |-> ev]
MBroadcastTo(conv, ev) ==
    [type |-> "BroadcastToConversation", conv |-> conv, ev |-> ev]

\* ------------------------------------------------- WsServer (the registry)
\* WsServer::subscribe_to_conversation
subscribe_to_conversation(s, user, conv) ==
    [s EXCEPT ![conv] = Entry(@.members \cup {user})]

\* An unsubscribe that removes the member and keeps the entry, empty or not.
UnsubscribeKeepsEntry(s, user, conv) ==
    IF s[conv].present THEN [s EXCEPT ![conv] = Entry(@.members \ {user})]
    ELSE s

\* An unsubscribe that drops the whole entry of the conversation.
RemoveEntry(s, user, conv) == [s EXCEPT ![conv] = NoEntry]

\* WsServer::unsubscribe_from_conversation
unsubscribe_from_conversation(s, user, conv) ==
    IF s[conv].present
    THEN IF s[conv].members \ {user} = {}
         THEN [s EXCEPT ![conv] = NoEntry]
         ELSE [s EXCEPT ![conv] = Entry(@.members \ {user})]
    ELSE s

\* The connections WsServer::broadcast_message does do_send to.
AllRecipients == {sessions[u] : u \in {v \in Ids : sessions[v] # NoConn}}

\* A fan-out to a conversation that goes the way of broadcast_message, to
\* every registered session.
BroadcastToEverySession(conv) == AllRecipients

\* The connections WsServer::broadcast_to_conversation does do_send to: the
\* registered recipient of every subscriber that has one.
ConversationRecipients(conv) ==
    IF subs[conv].present
    THEN {sessions[u] : u \in {v \in subs[conv].members : sessions[v] # NoConn}}
    ELSE {}

\* do_send of one WsMessage to a set of session actors.
DeliverTo(targets, ev) ==
    [k \in Conns |-> IF k \in targets THEN SocketWrite(recv, k, ev)[k]
                     ELSE recv[k]]

\* A connect that keeps the channel an identity already has.
ConnectKeepsFirst ==
    /\ mailbox # <<>> /\ Head(mailbox).type = "Connect"
    /\ sessions' = IF sessions[Head(mailbox).id] = NoConn
                   THEN [sessions EXCEPT ![Head(mailbox).id] =
                                             Head(mailbox).conn]
                   ELSE sessions
    /\ connState' = [connState EXCEPT ![Head(mailbox).conn] = "autosub"]
    /\ mailbox' = Tail(mailbox)
    /\ UNCHANGED <<connId, connCred, subs, tasks, storeVars, recv, events,
                   clock, dbErr, indexChanged>>
    /\ UNCHANGED authVars

\* Handler<Connect> for WsServer.  The session's `send(Connect)` future
\* resolves, so its auto-subscribe continuation may run.
HandleConnect ==
    /\ mailbox # <<>> /\ Head(mailbox).type = "Connect"
    /\ sessions' = [sessions EXCEPT ![Head(mailbox).id] = Head(mailbox).conn]
    /\ connState' = [connState EXCEPT ![Head(mailbox).conn] = "autosub"]
    /\ mailbox' = Tail(mailbox)
    /\ UNCHANGED <<connId, connCred, subs, tasks, storeVars, recv, events,
                   clock, dbErr, indexChanged>>
    /\ UNCHANGED authVars

\* A disconnect that drops the session and leaves the subscriptions alone.
DisconnectKeepsSubscriptions ==
    /\ mailbox # <<>> /\ Head(mailbox).type = "Disconnect"
    /\ sessions' = [sessions EXCEPT ![Head(mailbox).id] = NoConn]
    /\ mailbox' = Tail(mailbox)
    /\ UNCHANGED <<connVars, subs, tasks, storeVars, recv, events, clock,
                   dbErr, indexChanged>>
    /\ UNCHANGED authVars

\* A disconnect that leaves the identity alone while the channel registered
\* for it belongs to a session that is still running.
DisconnectOfStoppedOnly ==
    /\ mailbox # <<>> /\ Head(mailbox).type = "Disconnect"
    /\ LET i == Head(mailbox).id
           live == sessions[i] # NoConn /\ connState[sessions[i]] # "closed"
       IN /\ sessions' = IF live THEN sessions
                         ELSE [sessions EXCEPT ![i] = NoConn]
          /\ subs' = IF live THEN subs
                     ELSE [c \in ConvIds |->
                             IF subs[c].present /\ subs[c].members \ {i} # {}
                             THEN Entry(subs[c].members \ {i})
                             ELSE NoEntry]
    /\ mailbox' = Tail(mailbox)
    /\ UNCHANGED <<connVars, tasks, storeVars, recv, events, clock, dbErr,
                   indexChanged>>
    /\ UNCHANGED authVars

\* Handler<Disconnect> for WsServer
HandleDisconnect ==
    /\ mailbox # <<>> /\ Head(mailbox).type = "Disconnect"
    /\ sessions' = [sessions EXCEPT ![Head(mailbox).id] = NoConn]
    /\ subs' = [c \in ConvIds |->
                  IF subs[c].present
                     /\ subs[c].members \ {Head(mailbox).id} # {}
                  THEN Entry(subs[c].members \ {Head(mailbox).id})
                  ELSE NoEntry]
    /\ mailbox' = Tail(mailbox)
    /\ UNCHANGED <<connVars, tasks, storeVars, recv, events, clock, dbErr,
                   indexChanged>>
    /\ UNCHANGED authVars

\* Handler<BroadcastMessage> for WsServer
HandleBroadcastMessage ==
    /\ mailbox # <<>> /\ Head(mailbox).type = "BroadcastMessage"
    /\ recv' = DeliverTo(AllRecipients, Head(mailbox).ev)
    /\ mailbox' = Tail(mailbox)
    /\ UNCHANGED <<connVars, sessions, subs, tasks, storeVars, events, clock,
                   dbErr, indexChanged>>
    /\ UNCHANGED authVars

\* A fan-out to a conversation that also drops the members it finds without
\* a registered channel.
BroadcastDropsUnregistered ==
    /\ mailbox # <<>> /\ Head(mailbox).type = "BroadcastToConversation"
    /\ recv' = DeliverTo(ConversationRecipients(Head(mailbox).conv),
                         Head(mailbox).ev)
    /\ subs' = [subs EXCEPT ![Head(mailbox).conv] =
                  IF {u \in @.members : sessions[u] # NoConn} = {} THEN NoEntry
                  ELSE Entry({u \in @.members : sessions[u] # NoConn})]
    /\ mailbox' = Tail(mailbox)
    /\ UNCHANGED <<connVars, sessions, tasks, storeVars, events, clock,
                   dbErr, indexChanged>>
    /\ UNCHANGED authVars

\* Handler<BroadcastToConversation> for WsServer
HandleBroadcastToConversation ==
    /\ mailbox # <<>> /\ Head(mailbox).type = "BroadcastToConversation"
    /\ recv' = DeliverTo(ConversationRecipients(Head(mailbox).conv),
                         Head(mailbox).ev)
    /\ mailbox' = Tail(mailbox)
    /\ UNCHANGED <<connVars, sessions, subs, tasks, storeVars, events, clock,
                   dbErr, indexChanged>>
    /\ UNCHANGED authVars

\* The history of index changes after the server handled message m.
IndexChangedAfter(m) ==
    IF subs' # subs /\ m.no # 0 THEN indexChanged \cup {m.no}
    ELSE indexChanged

\* Handler<SubscribeToConversation> for WsServer
HandleSubscribe ==
    /\ mailbox # <<>> /\ Head(mailbox).type = "Subscribe"
    /\ subs' = subscribe_to_conversation(subs, Head(mailbox).user,
                                         Head(mailbox).conv)
    /\ indexChanged' = IndexChangedAfter(Head(mailbox))
    /\ mailbox' = Tail(mailbox)
    /\ UNCHANGED <<connVars, sessions, tasks, storeVars, recv, events, clock,
                   dbErr>>
    /\ UNCHANGED authVars

\* Handler<UnsubscribeFromConversation> for WsServer
HandleUnsubscribe ==
    /\ mailbox # <<>> /\ Head(mailbox).type = "Unsubscribe"
    /\ subs' = unsubscribe_from_conversation(subs, Head(mailbox).user,
                                             Head(mailbox).conv)
    /\ indexChanged' = IndexChangedAfter(Head(mailbox))
    /\ mailbox' = Tail(mailbox)
    /\ UNCHANGED <<connVars, sessions, tasks, storeVars, recv, events, clock,
                   dbErr>>
    /\ UNCHANGED authVars

\* --------------------------------------------------- store (conversations.rs)
ConvRows == 1..Len(conversations)

\* SELECT id FROM conversations WHERE id = $1 AND client = $2
IsClientOf(user, conv) ==
    conv \in ConvRows /\ conversations[conv].client = user

\* SELECT id FROM conversations WHERE id = $1 AND $2 = ANY(providers)
IsProviderOf(user, conv) ==
    conv \in ConvRows /\ user \in Range(conversations[conv].providers)

\* The rows of `ids` ordered by last_updated_timestamp DESC (ties by id).
RECURSIVE OrderByUpdatedDesc(_)
OrderByUpdatedDesc(ids) ==
    IF ids = {} THEN <<>>
    ELSE LET top == CHOOSE c \in ids : \A d \in ids :
                       \/ conversations[c].updated > conversations[d].updated
                       \/ /\ conversations[c].updated = conversations[d].updated
                          /\ c <= d
         IN <<top>> \o OrderByUpdatedDesc(ids \ {top})

\* ConversationService::get_conversations_by_client_id
get_conversations_by_client_id(user) ==
    OrderByUpdatedDesc({c \in ConvRows : conversations[c].client = user})

\* ConversationService::get_conversations_by_provider_id
get_conversations_by_provider_id(user) ==
    OrderByUpdatedDesc({c \in ConvRows :
                          user \in Range(conversations[c].providers)})

\* ------------------------------------------------- WsSession: life cycle
\* websocket_route and WsSession::started: the session gets a fresh random
\* id, whatever the request presents, and sends Connect to the server.
WebsocketRoute(k, cred, id) ==
    /\ connState[k] = "new"
    /\ connState' = [connState EXCEPT ![k] = "starting"]
    /\ connId' = [connId EXCEPT ![k] = id]
    /\ connCred' = [connCred EXCEPT ![k] = cred]
    /\ mailbox' = Append(mailbox, MConnect(id, k))
    /\ UNCHANGED <<sessions, subs, tasks, storeVars, recv, events, clock,
                   dbErr, indexChanged>>
    /\ UNCHANGED authVars

\* The subscriptions WsSession::started asks for once Connect was handled.
AutoSubscriptions(user, scopeOk, listOk) ==
    LET role == UserRole(user, scopeOk)
        convs == IF ~listOk THEN <<>>
                 ELSE IF role = "client"
                      THEN get_conversations_by_client_id(user)
                 ELSE IF role = "provider"
                      THEN get_conversations_by_provider_id(user)
                 ELSE <<>>
    IN [i \in 1..Len(convs) |-> MSubscribe(user, convs[i], 0)]

\* WsSession::started, the continuation after Connect; the session waits for
\* it (`.wait(ctx)`) before it reads frames.
AutoSubscribe(k, scopeOk, listOk) ==
    /\ connState[k] = "autosub"
    /\ connState' = [connState EXCEPT ![k] = "open"]
    /\ mailbox' = mailbox \o AutoSubscriptions(connId[k], scopeOk, listOk)
    /\ UNCHANGED <<connId, connCred, sessions, subs, tasks, storeVars, recv,
                   events, clock, dbErr, indexChanged>>
    /\ UNCHANGED authVars

\* ctx.stop() (a Close frame or the end of the stream) and
\* WsSession::stopping: Disconnect goes to the server, and the context,
\* which polls no spawned item once it is stopping, drops the futures the
\* session spawned with ctx.spawn where they stand.
Stopping(k) ==
    /\ connState[k] = "open"
    /\ connState' = [connState EXCEPT ![k] = "closed"]
    /\ mailbox' = Append(mailbox, MDisconnect(connId[k]))
    /\ tasks' = {t \in tasks : t.conn # k}
    /\ UNCHANGED <<connId, connCred, sessions, subs, storeVars, recv,
                   events, clock, dbErr, indexChanged>>
    /\ UNCHANGED authVars

\* ------------------------------------------- WsSession: inbound text frames
\* A store call of task `t` that returned an error.
Failure(t, call) ==
    [no |-> t.no, conn |-> t.conn, kind |-> t.kind, call |-> call]

\* ctx.spawn of a future for an inbound frame.
Spawn(t) ==
    /\ tasks' = tasks \cup {t}
    /\ events' = events + 1

\* A diagnostic after which the session stops, as the Close arm does.
DiagnosticThenStop(k, conv, text) ==
    /\ recv' = SocketWrite(recv, k, TextEv(text, conv, k, events + 1))
    /\ events' = events + 1
    /\ connState' = [connState EXCEPT ![k] = "closed"]
    /\ mailbox' = Append(mailbox, MDisconnect(connId[k]))
    /\ UNCHANGED <<connId, connCred, sessions, subs, tasks, storeVars,
                   clock, dbErr, indexChanged>>

\* ctx.text of a diagnostic for a frame that names conversation `conv`; no
\* future is spawned.
DiagnosticOn(k, conv, text) ==
    /\ recv' = SocketWrite(recv, k, TextEv(text, conv, k, events + 1))
    /\ events' = events + 1
    /\ UNCHANGED <<connVars, sessions, subs, mailbox, tasks, storeVars,
                   clock, dbErr, indexChanged>>

\* ctx.text of a diagnostic for a frame that names no conversation.
Diagnostic(k, text) == DiagnosticOn(k, 0, text)

\* A session that reads frames from the moment it is created.
HandlesWhileStarting(k) == connState[k] \in {"starting", "autosub", "open"}

\* A session reads frames once started() has finished, until it stops.
CanHandle(k) == connState[k] = "open"

\* A frame that does not deserialize to WsMessage.
RecvMalformed(k) ==
    /\ CanHandle(k)
    /\ Diagnostic(k, "Invalid message format")
    /\ UNCHANGED authVars

\* A WsMessage whose event is none of the six known ones.
RecvUnknownEvent(k) ==
    /\ CanHandle(k)
    /\ Diagnostic(k, "Unknown event type")
    /\ UNCHANGED authVars

\* event "conversations"
RecvConversations(k) ==
    /\ CanHandle(k)
    /\ Spawn([no |-> events + 1, kind |-> "conversations", conn |-> k,
              user |-> connId[k], pc |-> "list"])
    /\ UNCHANGED <<connVars, sessions, subs, mailbox, storeVars, recv, clock,
                   dbErr, indexChanged>>
    /\ UNCHANGED authVars

\* event "message": `sender` is the sender_id of the envelope.
RecvMessage(k, sender, shape, conv, content) ==
    /\ CanHandle(k)
    /\ IF shape = "tagged"
       THEN /\ Spawn([no |-> events + 1, kind |-> "message", conn |-> k,
                      user |-> connId[k], pc |-> "auth", sender |-> sender,
                      conv |-> conv, content |-> content, ts |-> clock,
                      msg |-> 0])
            /\ clock' = clock + 1
            /\ UNCHANGED <<connVars, sessions, subs, mailbox, storeVars,
                           recv, dbErr, indexChanged>>
       ELSE DiagnosticOn(k, conv, "Invalid message data format")
    /\ UNCHANGED authVars

\* new_conversation futures that have not reached the store yet.
PendingCreates == Cardinality({t \in tasks : t.kind = "new_conversation"})

\* event "new_conversation"
RecvNewConversation(k, shape, providers) ==
    /\ CanHandle(k)
    /\ Len(conversations) + PendingCreates < MaxConvs
    /\ IF shape = "tagged"
       THEN /\ Spawn([no |-> events + 1, kind |-> "new_conversation",
                      conn |-> k, user |-> connId[k], pc |-> "create",
                      providers |-> providers])
            /\ UNCHANGED <<connVars, sessions, subs, mailbox, storeVars,
                           recv, clock, dbErr, indexChanged>>
       ELSE Diagnostic(k, "Invalid new conversation data format")
    /\ UNCHANGED authVars

\* event "conversation_history"
RecvHistory(k, shape, conv, page, limit) ==
    /\ CanHandle(k)
    /\ IF shape = "tagged"
       THEN /\ Spawn([no |-> events + 1, kind |-> "conversation_history",
                      conn |-> k, user |-> connId[k], pc |-> "auth",
                      conv |-> conv, page |-> page, limit |-> limit,
                      total |-> 0])
            /\ UNCHANGED <<connVars, sessions, subs, mailbox, storeVars,
                           recv, clock, dbErr, indexChanged>>
       ELSE DiagnosticOn(k, conv, "Invalid conversation history data format")
    /\ UNCHANGED authVars

\* event "subscribe_conversation"; `conv` is params.conversation_id, 0 when
\* the parameter is missing and -1 when it is not a UUID.
RecvSubscribe(k, conv) ==
    /\ CanHandle(k)
    /\ IF conv \in ConvIds
       THEN /\ mailbox' = Append(mailbox,
                                 MSubscribe(connId[k], conv, events + 1))
            /\ Spawn([no |-> events + 1, kind |-> "subscribe", conn |-> k,
                      user |-> connId[k], pc |-> "profile", conv |-> conv])
            /\ recv' = SocketWrite(recv, k,
                                   Ev("subscribed", conv, 0, k, events + 1))
            /\ UNCHANGED <<connVars, sessions, subs, storeVars, clock, dbErr,
                           indexChanged>>
       ELSE Diagnostic(k, IF conv = 0
                          THEN "Missing conversation_id parameter"
                          ELSE "Invalid conversation ID format")
    /\ UNCHANGED authVars

\* event "unsubscribe_conversation"
RecvUnsubscribe(k, conv) ==
    /\ CanHandle(k)
    /\ IF conv \in ConvIds
       THEN /\ mailbox' = Append(mailbox,
                                 MUnsubscribe(connId[k], conv, events + 1))
            /\ Spawn([no |-> events + 1, kind |-> "unsubscribe", conn |-> k,
                      user |-> connId[k], pc |-> "profile", conv |-> conv])
            /\ recv' = SocketWrite(recv, k,
                                   Ev("unsubscribed", conv, 0, k, events + 1))
            /\ UNCHANGED <<connVars, sessions, subs, storeVars, clock, dbErr,
                           indexChanged>>
       ELSE Diagnostic(k, IF conv = 0
                          THEN "Missing conversation_id parameter"
                          ELSE "Invalid conversation ID format")
    /\ UNCHANGED authVars

\* ------------------------------------------------ the futures sessions spawn
\* The membership check of the "message" and "conversation_history" branches.
CanAccess(user, conv, scopeOk, memberOk) ==
    LET role == UserRole(user, scopeOk) IN
    IF role = "client" THEN memberOk /\ IsClientOf(user, conv)
    ELSE IF role = "provider" THEN memberOk /\ IsProviderOf(user, conv)
    ELSE FALSE

\* The store errors of one membership check.
AccessFailures(t, scopeOk, memberOk) ==
    (IF scopeOk THEN {} ELSE {Failure(t, "scope")})
    \cup (IF UserRole(t.user, scopeOk) \in {"client", "provider"} /\ ~memberOk
          THEN {Failure(t, "member")} ELSE {})

\* "conversations": role, list, sort, reply to the own session.
ConversationsTask(t, scopeOk, listOk) ==
    /\ t \in tasks /\ t.kind = "conversations"
    /\ tasks' = tasks \ {t}
    /\ recv' = SocketWrite(recv, t.conn,
                           Ev("conversations", 0, 0, t.conn, t.no))
    /\ dbErr' = dbErr
          \cup (IF scopeOk THEN {} ELSE {Failure(t, "scope")})
          \cup (IF UserRole(t.user, scopeOk) \in {"client", "provider"}
                   /\ ~listOk
                THEN {Failure(t, "list")} ELSE {})
    /\ UNCHANGED <<connVars, sessions, subs, mailbox, storeVars, events,
                   clock, indexChanged>>
    /\ UNCHANGED authVars

\* The sender_id ConversationService::send_message is called with: the one of
\* the envelope (ws_message.sender_id).
MessageSender(t) == t.sender

\* A "message" future that goes on to the store without subscribing the
\* requester.
MessageAuthWithoutSubscribe(t, scopeOk, memberOk) ==
    /\ t \in tasks /\ t.kind = "message" /\ t.pc = "auth"
    /\ IF CanAccess(t.user, t.conv, scopeOk, memberOk)
       THEN /\ mailbox' = mailbox
            /\ tasks' = (tasks \ {t}) \cup {[t EXCEPT !.pc = "insert"]}
       ELSE /\ mailbox' = Append(mailbox, MBroadcast(ErrorEv(
                 "You are not authorized to send messages in this conversation",
                 t.conv, t.conn, t.no)))
            /\ tasks' = tasks \ {t}
    /\ dbErr' = dbErr \cup AccessFailures(t, scopeOk, memberOk)
    /\ UNCHANGED <<connVars, sessions, subs, storeVars, recv, events, clock,
                   indexChanged>>
    /\ UNCHANGED authVars

\* "message", up to the subscription: role and membership, then either the
\* error (sent to the server as BroadcastMessage) or SubscribeToConversation.
MessageAuth(t, scopeOk, memberOk) ==
    /\ t \in tasks /\ t.kind = "message" /\ t.pc = "auth"
    /\ IF CanAccess(t.user, t.conv, scopeOk, memberOk)
       THEN /\ mailbox' = Append(mailbox, MSubscribe(t.user, t.conv, t.no))
            /\ tasks' = (tasks \ {t}) \cup {[t EXCEPT !.pc = "insert"]}
       ELSE /\ mailbox' = Append(mailbox, MBroadcast(ErrorEv(
                 "You are not authorized to send messages in this conversation",
                 t.conv, t.conn, t.no)))
            /\ tasks' = tasks \ {t}
    /\ dbErr' = dbErr \cup AccessFailures(t, scopeOk, memberOk)
    /\ UNCHANGED <<connVars, sessions, subs, storeVars, recv, events, clock,
                   indexChanged>>
    /\ UNCHANGED authVars

\* ConversationService::send_message, first statement: INSERT INTO messages.
MessageInsert(t, ok) ==
    /\ t \in tasks /\ t.kind = "message" /\ t.pc = "insert"
    /\ IF ok
       THEN /\ messages' = Append(messages,
                 [conv |-> t.conv, sender |-> MessageSender(t),
                  content |-> t.content, ts |-> t.ts, conn |-> t.conn,
                  no |-> t.no])
            /\ tasks' = (tasks \ {t})
                  \cup {[t EXCEPT !.pc = "update", !.msg = Len(messages) + 1]}
            /\ UNCHANGED <<mailbox, dbErr>>
       ELSE /\ mailbox' = Append(mailbox, MBroadcast(
                 ErrorEv("Error sending message", t.conv, t.conn, t.no)))
            /\ tasks' = tasks \ {t}
            /\ dbErr' = dbErr \cup {Failure(t, "insert")}
            /\ UNCHANGED messages
    /\ UNCHANGED <<connVars, sessions, subs, conversations, recv, events,
                   clock, indexChanged>>
    /\ UNCHANGED authVars

\* ConversationService::send_message, second statement: UPDATE conversations,
\* then the result is sent to the server.
MessageUpdate(t, ok) ==
    /\ t \in tasks /\ t.kind = "message" /\ t.pc = "update"
    /\ tasks' = tasks \ {t}
    /\ IF ok
       THEN /\ conversations' = [conversations EXCEPT ![t.conv] =
                 [@ EXCEPT !.last_message = t.content, !.updated = t.ts]]
            /\ mailbox' = Append(mailbox, MBroadcastTo(t.conv,
                 Ev("message_sent", t.conv, t.msg, t.conn, t.no)))
            /\ UNCHANGED dbErr
       ELSE /\ mailbox' = Append(mailbox, MBroadcast(
                 ErrorEv("Error sending message", t.conv, t.conn, t.no)))
            /\ dbErr' = dbErr \cup {Failure(t, "update")}
            /\ UNCHANGED conversations
    /\ UNCHANGED <<connVars, sessions, subs, messages, recv, events, clock,
                   indexChanged>>
    /\ UNCHANGED authVars

\* What the "new_conversation" branch sends to the server after a successful
\* create: the subscriptions, conversation_created, one invitation per
\* provider.
CreatedMessages(t, id) ==
    LET ps == IF t.providers = NoProviders THEN <<>> ELSE t.providers IN
    <<MSubscribe(t.user, id, t.no)>>
    \o [i \in 1..Len(ps) |-> MSubscribe(ps[i], id, t.no)]
    \o <<MBroadcast(Ev("conversation_created", id, 0, t.conn, t.no))>>
    \o [i \in 1..Len(ps) |->
          MBroadcastTo(id,
                       Ev("new_conversation_invitation", id, 0, t.conn, t.no))]

\* "new_conversation": role check, ConversationService::create_conversation,
\* notifications.
NewConversationTask(t, scopeOk, createOk) ==
    /\ t \in tasks /\ t.kind = "new_conversation"
    /\ tasks' = tasks \ {t}
    /\ IF UserRole(t.user, scopeOk) # "client"
       THEN /\ mailbox' = Append(mailbox, MBroadcast(ErrorEv(
                 "Only clients can create conversations", 0, t.conn, t.no)))
            /\ dbErr' = dbErr
                 \cup (IF scopeOk THEN {} ELSE {Failure(t, "scope")})
            /\ UNCHANGED <<conversations, clock>>
       ELSE IF createOk
       THEN /\ conversations' = Append(conversations,
                 [client |-> t.user,
                  providers |-> ProvidersOrDefault(t.providers),
                  last_message |-> "", updated |-> clock, conn |-> t.conn,
                  no |-> t.no])
            /\ clock' = clock + 1
            /\ mailbox' = mailbox
                 \o CreatedMessages(t, Len(conversations) + 1)
            /\ UNCHANGED dbErr
       ELSE /\ mailbox' = Append(mailbox, MBroadcast(
                 ErrorEv("Error creating conversation", 0, t.conn, t.no)))
            /\ dbErr' = dbErr \cup {Failure(t, "create")}
            /\ UNCHANGED <<conversations, clock>>
    /\ UNCHANGED <<connVars, sessions, subs, messages, recv, events,
                   indexChanged>>
    /\ UNCHANGED authVars

\* The ids of `ids` ordered by messages.timestamp DESC (ties by id).
RECURSIVE OrderByTimestampDesc(_)
OrderByTimestampDesc(ids) ==
    IF ids = {} THEN <<>>
    ELSE LET top == CHOOSE m \in ids : \A n \in ids :
                       \/ messages[m].ts > messages[n].ts
                       \/ messages[m].ts = messages[n].ts /\ m <= n
         IN <<top>> \o OrderByTimestampDesc(ids \ {top})

MessagesOf(conv) == {m \in 1..Len(messages) : messages[m].conv = conv}

\* The validation at the head of get_conversation_messages.
ValidPaging(page, limit) == page >= 1 /\ limit >= 1 /\ limit <= 100

\* i32: page, limit, offset and total_count are 32-bit signed integers.
MaxI32 == 2147483647
\* 2^16, to take a 32-bit product in two halves.
Half == 65536

\* x * y divided by 2^16 and its remainder, for a multiplier y <= 100.
MulHi(x, y) == (x \div Half) * y + ((x % Half) * y) \div Half
MulLo(x, y) == ((x % Half) * y) % Half

\* The i32 whose upper half is hi (taken modulo 2^16, bit 15 the sign) and
\* whose lower half is lo.
FromHalves(hi, lo) ==
    LET h == hi % Half IN
    (IF h >= Half \div 2 THEN h - Half ELSE h) * Half + lo

\* `x * y` of i32 leaves the range (x >= 0, y >= 0).
MulOverflows(x, y) == MulHi(x, y) >= Half \div 2

\* `x * y` of i32 as a build without overflow checks computes it.
wrapping_mul(x, y) == FromHalves(MulHi(x, y), MulLo(x, y))

\* `a + b` of i32 leaves the range (b >= 0).
AddOverflows(a, b) == a > MaxI32 - b

\* `a + b` of i32 as a build without overflow checks computes it (b >= 0).
wrapping_add(a, b) ==
    IF AddOverflows(a, b) THEN (a - MaxI32 - 1) + (b - MaxI32 - 1)
    ELSE a + b

\* let offset = (page - 1) * limit
Offset(page, limit) == wrapping_mul(page - 1, limit)

\* SELECT ... ORDER BY timestamp DESC LIMIT $2 OFFSET $3
SelectPage(conv, limit, offset) ==
    LET all == OrderByTimestampDesc(MessagesOf(conv)) IN
    SubSeq(all, offset + 1,
           IF offset + limit < Len(all) THEN offset + limit ELSE Len(all))

\* The conversation_history_response for task t.
HistoryResponse(t) ==
    LET offset == Offset(t.page, t.limit) IN
    [event |-> "conversation_history_response", conv |-> t.conv,
     messages |-> SelectPage(t.conv, t.limit, offset),
     total_count |-> t.total,
     has_more |-> offset + t.limit < t.total,
     from |-> t.conn, no |-> t.no]

\* "conversation_history", up to the first query of
\* get_conversation_messages: membership, subscription, validation.
HistoryAuth(t, scopeOk, memberOk) ==
    /\ t \in tasks /\ t.kind = "conversation_history" /\ t.pc = "auth"
    /\ dbErr' = dbErr \cup AccessFailures(t, scopeOk, memberOk)
    /\ IF ~CanAccess(t.user, t.conv, scopeOk, memberOk)
       THEN /\ recv' = SocketWrite(recv, t.conn, ErrorEv(
                 "You are not authorized to access this conversation history",
                 t.conv, t.conn, t.no))
            /\ tasks' = tasks \ {t}
            /\ UNCHANGED mailbox
       ELSE /\ mailbox' = Append(mailbox, MSubscribe(t.user, t.conv, t.no))
            /\ IF ValidPaging(t.page, t.limit)
               THEN /\ tasks' = (tasks \ {t}) \cup {[t EXCEPT !.pc = "count"]}
                    /\ UNCHANGED recv
               ELSE /\ tasks' = tasks \ {t}
                    /\ recv' = SocketWrite(recv, t.conn, ErrorEv(
                         "Error fetching conversation history", t.conv, t.conn, t.no))
    /\ UNCHANGED <<connVars, sessions, subs, storeVars, events, clock,
                   indexChanged>>
    /\ UNCHANGED authVars

\* get_conversation_messages: SELECT COUNT(*)
HistoryCount(t, ok) ==
    /\ t \in tasks /\ t.kind = "conversation_history" /\ t.pc = "count"
    /\ IF ok
       THEN /\ tasks' = (tasks \ {t}) \cup
                 {[t EXCEPT !.pc = "select",
                            !.total = Cardinality(MessagesOf(t.conv))]}
            /\ UNCHANGED <<recv, dbErr>>
       ELSE /\ tasks' = tasks \ {t}
            /\ recv' = SocketWrite(recv, t.conn, ErrorEv(
                 "Error fetching conversation history", t.conv, t.conn, t.no))
            /\ dbErr' = dbErr \cup {Failure(t, "count")}
    /\ UNCHANGED <<connVars, sessions, subs, mailbox, storeVars, events,
                   clock, indexChanged>>
    /\ UNCHANGED authVars

\* get_conversation_messages: the page query, then the reply to the session.
HistorySelect(t, ok) ==
    /\ t \in tasks /\ t.kind = "conversation_history" /\ t.pc = "select"
    /\ tasks' = tasks \ {t}
    /\ IF ok
       THEN /\ recv' = SocketWrite(recv, t.conn, HistoryResponse(t))
            /\ UNCHANGED dbErr
       ELSE /\ recv' = SocketWrite(recv, t.conn, ErrorEv(
                 "Error fetching conversation history", t.conv, t.conn, t.no))
            /\ dbErr' = dbErr \cup {Failure(t, "select")}
    /\ UNCHANGED <<connVars, sessions, subs, mailbox, storeVars, events,
                   clock, indexChanged>>
    /\ UNCHANGED authVars

\* SELECT first_name, ... FROM users WHERE id = $1, fetch_one: an error when
\* the query fails or there is no row.
ProfileFound(user, dbOk) == dbOk /\ user \in DOMAIN Scope

\* A presence future that reports a failed profile lookup as the other
\* branches report their store errors.
PresenceReportsFailure(t, dbOk) ==
    /\ t \in tasks /\ t.kind \in {"subscribe", "unsubscribe"}
    /\ tasks' = tasks \ {t}
    /\ mailbox' = Append(mailbox,
          IF ProfileFound(t.user, dbOk)
          THEN MBroadcastTo(t.conv,
                Ev(IF t.kind = "subscribe" THEN "user_joined" ELSE "user_left",
                   t.conv, 0, t.conn, t.no))
          ELSE MBroadcast(ErrorEv("Error fetching user profile", t.conv,
                                  t.conn, t.no)))
    /\ dbErr' = dbErr \cup (IF dbOk THEN {} ELSE {Failure(t, "profile")})
    /\ UNCHANGED <<connVars, sessions, subs, storeVars, recv, events, clock,
                   indexChanged>>
    /\ UNCHANGED authVars

\* The future of "subscribe_conversation" / "unsubscribe_conversation": the
\* profile lookup, then the presence broadcast (nothing when it fails).
PresenceTask(t, dbOk) ==
    /\ t \in tasks /\ t.kind \in {"subscribe", "unsubscribe"}
    /\ tasks' = tasks \ {t}
    /\ IF ProfileFound(t.user, dbOk)
       THEN mailbox' = Append(mailbox, MBroadcastTo(t.conv,
                Ev(IF t.kind = "subscribe" THEN "user_joined" ELSE "user_left",
                   t.conv, 0, t.conn, t.no)))
       ELSE UNCHANGED mailbox
    /\ dbErr' = dbErr \cup (IF dbOk THEN {} ELSE {Failure(t, "profile")})
    /\ UNCHANGED <<connVars, sessions, subs, storeVars, recv, events, clock,
                   indexChanged>>
    /\ UNCHANGED authVars

\* ------------------------------------------------------------ specification
\* Connections are numbered in the order the HTTP server accepts them.
Accepts(k) == k = "k1" \/ connState["k1"] # "new"

\* The life cycle of the sessions.  The credential of the opening request is
\* read by no code, so it is left out here (NoCred); SpecConnect draws it.
StartStep ==
    \E k \in Conns :
        \/ \E id \in Ids : Accepts(k) /\ WebsocketRoute(k, NoCred, id)
        \/ \E scopeOk, listOk \in BOOLEAN : AutoSubscribe(k, scopeOk, listOk)

StopStep == \E k \in Conns : Stopping(k)

\* An inbound "message" frame; its sender_id is any identity.
SendFrame ==
    \E k \in Conns, sender \in Ids, shape \in Shapes, conv \in ConvIds,
       content \in Contents :
        RecvMessage(k, sender, shape, conv, content)

\* An inbound "message" frame of a client that puts its own id in sender_id.
OwnSendFrame ==
    \E k \in Conns, shape \in Shapes, conv \in ConvIds, content \in Contents :
        RecvMessage(k, connId[k], shape, conv, content)

\* An inbound frame of any other kind.
OtherFrame ==
    \E k \in Conns :
        \/ RecvMalformed(k)
        \/ RecvUnknownEvent(k)
        \/ RecvConversations(k)
        \/ \E shape \in Shapes, providers \in ProviderLists :
               RecvNewConversation(k, shape, providers)
        \/ \E shape \in Shapes, conv \in ConvIds, a \in HistoryArgs :
               RecvHistory(k, shape, conv, a[1], a[2])
        \/ \E conv \in ConvIds \cup {0, -1} : RecvSubscribe(k, conv)
        \/ \E conv \in ConvIds \cup {0, -1} : RecvUnsubscribe(k, conv)

\* A step of a future spawned for a "message" frame.
SendTaskStep ==
    \E t \in tasks, a, b \in BOOLEAN :
        \/ MessageAuth(t, a, b)
        \/ MessageInsert(t, a)
        \/ MessageUpdate(t, a)

\* A step of a future spawned for a frame of another kind.
OtherTaskStep ==
    \E t \in tasks, a, b \in BOOLEAN :
        \/ ConversationsTask(t, a, b)
        \/ NewConversationTask(t, a, b)
        \/ HistoryAuth(t, a, b)
        \/ HistoryCount(t, a)
        \/ HistorySelect(t, a)
        \/ PresenceTask(t, a)

\* The WsServer actor takes the next message of its mailbox.
ServerStep ==
    \/ HandleConnect
    \/ HandleBroadcastMessage
    \/ HandleBroadcastToConversation
    \/ HandleSubscribe

Next ==
    \/ StartStep
    \/ StopStep
    \/ events < MaxEvents /\ (SendFrame \/ OtherFrame)
    \/ SendTaskStep
    \/ OtherTaskStep
    \/ ServerStep
    \/ HandleDisconnect
    \/ HandleUnsubscribe

Spec == Init /\ [][Next]_vars

\* Concurrent sends: sessions that stay connected and send "message" frames
\* only, each with its own id as sender_id.
NextSend ==
    \/ StartStep
    \/ events < MaxSends /\ OwnSendFrame
    \/ SendTaskStep
    \/ ServerStep

SpecSend == Init /\ [][NextSend]_vars

\* Connection establishment alone, with the credential of the opening
\* request drawn from Creds.
NextConnect ==
    \/ \E k \in Conns, cred \in Creds, id \in Ids :
           Accepts(k) /\ WebsocketRoute(k, cred, id)
    \/ \E k \in Conns, scopeOk, listOk \in BOOLEAN :
           AutoSubscribe(k, scopeOk, listOk)
    \/ \E k \in Conns : Stopping(k)
    \/ HandleConnect
    \/ HandleDisconnect
    \/ HandleSubscribe

SpecConnect == Init /\ [][NextConnect]_vars

\* A history fetch that runs while messages are sent: sessions that stay
\* connected and send "message" frames and "conversation_history" frames
\* whose params deserialize.
HistoryFrame ==
    \E k \in Conns, conv \in ConvIds, a \in HistoryArgs :
        RecvHistory(k, "tagged", conv, a[1], a[2])

HistoryTaskStep ==
    \E t \in tasks, a, b \in BOOLEAN :
        \/ HistoryAuth(t, a, b)
        \/ HistoryCount(t, a)
        \/ HistorySelect(t, a)

NextHistory ==
    \/ StartStep
    \/ events < MaxFetches /\ (OwnSendFrame \/ HistoryFrame)
    \/ SendTaskStep
    \/ HistoryTaskStep
    \/ ServerStep

SpecHistory == Init /\ [][NextHistory]_vars

\* ------------------------------------------------------- src/src/utils.rs
\* A request's `timestamp` string: RFC 3339 text that parses to a time (in
\* seconds), or text that does not parse.
Timestamp(at) == [parsed |-> TRUE, at |-> at]
Unparsable == [parsed |-> FALSE, at |-> 0]

\* is_timestamp_valid at time `t`: time_diff > -5 s && time_diff < 1 min.
is_timestamp_valid(timestamp, t) ==
    /\ timestamp.parsed
    /\ t - timestamp.at > -5
    /\ t - timestamp.at < 60

\* serde_json::Value: strings, numbers, arrays and objects.  An object lists
\* its members in the order they were inserted.
JStr(s) == [t |-> "string", s |-> s]
JNum(n) == [t |-> "number", n |-> n]
JArr(items) == [t |-> "array", items |-> items]
JObj(members) == [t |-> "object", members |-> members]
Member(k, v) == [k |-> k, v |-> v]

\* The order of String keys in a BTreeMap (byte order).
KeyOrder ==
    <<"a", "b", "phone_number", "public_key", "refresh_token", "timestamp",
      "user_id", "verification_code">>
KeyRank(k) == CHOOSE i \in 1..Len(KeyOrder) : KeyOrder[i] = k

\* BTreeMap: the members by ascending key, a later insert of a key
\* replacing the earlier one.
RECURSIVE SortedFrom(_, _)
SortedFrom(members, rank) ==
    IF rank > Len(KeyOrder) THEN <<>>
    ELSE LET at == {i \in 1..Len(members) : members[i].k = KeyOrder[rank]}
         IN (IF at = {} THEN <<>>
             ELSE <<members[CHOOSE i \in at : \A j \in at : j <= i]>>)
            \o SortedFrom(members, rank + 1)
BTreeMap(members) == SortedFrom(members, 1)

\* The double quote as it reads inside `level` nested JSON strings: each
\* level escapes the quote and the backslashes of the level before.
Quote(level) ==
    IF level = 0 THEN "\""
    ELSE IF level = 1 THEN "\\\""
    ELSE "\\\\\\\""

\* The iteration order of serde_json::Map, the map inside Value::Object: a
\* BTreeMap (serde_json without the preserve_order feature).
MapOrder(members) == BTreeMap(members)

\* serde_json::to_string of a Value, and of the members and items inside.
RECURSIVE Serialize(_), SerializeMembers(_), SerializeItems(_)
Serialize(value) ==
    CASE value.t = "string" -> Quote(0) \o value.s \o Quote(0)
      [] value.t = "number" -> ToString(value.n)
      [] value.t = "array" -> "[" \o SerializeItems(value.items) \o "]"
      [] value.t = "object" ->
            "{" \o SerializeMembers(MapOrder(value.members)) \o "}"
SerializeMembers(members) ==
    IF members = <<>> THEN ""
    ELSE Quote(0) \o Head(members).k \o Quote(0) \o ":"
         \o Serialize(Head(members).v)
         \o (IF Len(members) > 1 THEN "," ELSE "")
         \o SerializeMembers(Tail(members))
SerializeItems(items) ==
    IF items = <<>> THEN ""
    ELSE Serialize(Head(items))
         \o (IF Len(items) > 1 THEN "," ELSE "")
         \o SerializeItems(Tail(items))

\* to_canonical_json of utils.rs, which verify_signature signs over: an
\* object goes through a BTreeMap<String, Value>, an array through a
\* Vec<Value>, and serde_json::to_string writes either.
to_canonical_json(value) ==
    CASE value.t = "object" ->
            "{" \o SerializeMembers(BTreeMap(value.members)) \o "}"
      [] value.t = "array" -> "[" \o SerializeItems(value.items) \o "]"
      [] OTHER -> Serialize(value)

\* to_canonical_json of tests/testing_utils.rs, which the signing side
\* uses: a string is returned as it is, an object becomes a
\* BTreeMap<&String, String> of the canonical strings of its values, an
\* array a Vec<String> of them.  `level` counts the JSON strings the result
\* is nested in (0: the result itself); text inside a string is escaped.
RECURSIVE CanonicalAt(_, _), CanonicalMembers(_, _), CanonicalItems(_, _)
CanonicalAt(value, level) ==
    CASE value.t = "string" -> value.s
      [] value.t = "number" -> ToString(value.n)
      [] value.t = "array" ->
            "[" \o CanonicalItems(value.items, level) \o "]"
      [] value.t = "object" ->
            "{" \o CanonicalMembers(BTreeMap(value.members), level) \o "}"
CanonicalMembers(members, level) ==
    IF members = <<>> THEN ""
    ELSE Quote(level) \o Head(members).k \o Quote(level) \o ":"
         \o Quote(level) \o CanonicalAt(Head(members).v, level + 1)
         \o Quote(level)
         \o (IF Len(members) > 1 THEN "," ELSE "")
         \o CanonicalMembers(Tail(members), level)
CanonicalItems(items, level) ==
    IF items = <<>> THEN ""
    ELSE Quote(level) \o CanonicalAt(Head(items), level + 1) \o Quote(level)
         \o (IF Len(items) > 1 THEN "," ELSE "")
         \o CanonicalItems(Tail(items), level)
testing_utils_to_canonical_json(value) == CanonicalAt(value, 0)

\* An Ed25519 signature: the public key whose private half made it and the
\* bytes it was made over.  Text that is no base64 of 64 bytes is no
\* signature.
Sign(bytes, key) == [key |-> key, over |-> bytes]
NoSignature == [key |-> "", over |-> ""]

\* verify_signature: the canonical JSON of the data, verify_strict under
\* the given public key.
verify_signature(data, signature, public_key) ==
    /\ signature # NoSignature
    /\ signature.key = public_key
    /\ signature.over = to_canonical_json(data)

\* Duration::days(1), in seconds.
Day == 86400
\* The leeway of jsonwebtoken's Validation::new, in seconds.
Leeway == 60
\* Nonce::from_slice(&[0u8; 12])
FixedNonce == 0

\* The Claims generate_signed_encrypted_token signs at time `t`.
Claims(user_id, user_scope, t) ==
    [sub |-> user_id, iss |-> "VeterinaryText", aud |-> "VeterinaryText",
     exp |-> t + Day, iat |-> t, scope |-> user_scope]

\* An ES256 JWT of `claims` signed with `signer`, AES-256-GCM encrypted
\* under `key` with `nonce`; only the ciphertext makes the token, so the
\* nonce is part of how it was made, not of what is sent.
Encrypted(claims, signer, key, nonce) ==
    [claims |-> claims, signer |-> signer, key |-> key, nonce |-> nonce]

\* generate_signed_encrypted_token at time `t`.
generate_signed_encrypted_token(user_id, user_scope, t) ==
    Encrypted(Claims(user_id, user_scope, t), "JWT_PRIVATE_KEY",
              "ENCRYPTION_KEY", FixedNonce)

\* What verify_and_decode_token returns.
TokenOk(claims) == [ok |-> TRUE, error |-> "", claims |-> claims]
TokenErr(error) ==
    [ok |-> FALSE, error |-> error, claims |-> Claims("nil", "", 0)]
\* Text that is no base64 of a ciphertext.
Garbage == Encrypted(Claims("nil", "", 0), "", "", FixedNonce)

\* verify_and_decode_token at time `t`: decrypt under ENCRYPTION_KEY with
\* the fixed nonce, then jsonwebtoken::decode with Validation::new(ES256),
\* which checks the signature and exp (with its leeway) and, no issuer or
\* audience being set on it, compares neither iss nor aud.
verify_and_decode_token(encrypted_token, t) ==
    IF encrypted_token = Garbage THEN TokenErr("Base64")
    ELSE IF \/ encrypted_token.key # "ENCRYPTION_KEY"
            \/ encrypted_token.nonce # FixedNonce
    THEN TokenErr("Decryption error")
    ELSE IF encrypted_token.signer # "JWT_PRIVATE_KEY"
    THEN TokenErr("InvalidSignature")
    ELSE IF encrypted_token.claims.exp < t - Leeway
    THEN TokenErr("ExpiredSignature")
    ELSE TokenOk(encrypted_token.claims)

\* -------------------------------------------------------- src/src/main.rs
\* Phone numbers that start with "000123" are test numbers.
TestPhones == {"0001231", "0001239"}
Phones == {"0001231", "5550002", "0001239"}
\* Ids the users table gives to new rows.
NewIds == <<"g", "n">>

Endpoints ==
    {"register", "request_verification_code", "login", "refresh", "logout",
     "delete_account"}

\* The `data` of a SignedData<T>; a field T does not have is empty.
Data(phone_number, public_key, verification_code, refresh_token, user_id, timestamp) ==
    [phone_number |-> phone_number, public_key |-> public_key,
     verification_code |-> verification_code,
     refresh_token |-> refresh_token, user_id |-> user_id,
     timestamp |-> timestamp]

\* The text of a timestamp and of a refresh token.
TimestampText(timestamp) ==
    IF timestamp.parsed THEN "t" \o ToString(timestamp.at) ELSE "yesterday"
TokenText(token) == "r" \o ToString(token)

\* serde_json::to_value of RegisterData, RequestVerificationCodeData,
\* LoginData, RefreshData, LogoutData and DeleteUserData: the fields in the
\* order the struct declares them.
ToValue(endpoint, data) ==
    LET phone == Member("phone_number", JStr(data.phone_number))
        key == Member("public_key", JStr(data.public_key))
        code == Member("verification_code", JStr(data.verification_code))
        token == Member("refresh_token", JStr(TokenText(data.refresh_token)))
        user == Member("user_id", JStr(data.user_id))
        ts == Member("timestamp", JStr(TimestampText(data.timestamp)))
    IN JObj(CASE endpoint = "register" -> <<phone, key, ts>>
              [] endpoint = "request_verification_code" -> <<phone, ts>>
              [] endpoint = "login" -> <<code, user, ts>>
              [] endpoint \in {"refresh", "logout"} -> <<token, user, ts>>
              [] endpoint = "delete_account" -> <<user, ts>>)

\* An HTTP response.
Reply(no, status, body) == [no |-> no, status |-> status, body |-> body]

\* A request being handled: the SignedData and what the handler has read.
Task(no, endpoint, data, signature) ==
    [no |-> no, endpoint |-> endpoint, data |-> data,
     signature |-> signature, pc |-> IF endpoint = "register" THEN "insert"
                                     ELSE "lookup",
     public_key |-> "", phone_number |-> "", scope |-> "",
     verified |-> FALSE]

\* The handler of task t returns `status` and `body`.
Respond(t, status, body) ==
    /\ http' = http \ {t}
    /\ reply' = Reply(t.no, status, body)

\* The handler of task t moves on to its next await.
Continue(t, next) == http' = (http \ {t}) \cup {next}

\* The head of each signed endpoint, up to its first await: the freshness
\* check and, in register, the signature check under the declared key.
Arrive(endpoint, data, signature) ==
    /\ requests < MaxRequests
    /\ requests' = requests + 1
    /\ IF ~is_timestamp_valid(data.timestamp, now)
       THEN /\ reply' = Reply(requests + 1, 400, "Invalid timestamp")
            /\ UNCHANGED http
       ELSE IF /\ endpoint = "register"
               /\ ~verify_signature(ToValue(endpoint, data), signature,
                                    data.public_key)
       THEN /\ reply' = Reply(requests + 1, 400, "Invalid signature")
            /\ UNCHANGED http
       ELSE /\ http' = http \cup {Task(requests + 1, endpoint, data,
                                       signature)}
            /\ UNCHANGED reply
    /\ UNCHANGED <<now, users, refresh_tokens, issued, probe>>
    /\ UNCHANGED wsVars

\* The id of a new users row.
NewId ==
    NewIds[CHOOSE i \in 1..Len(NewIds) :
              /\ NewIds[i] \notin DOMAIN users
              /\ \A j \in 1..(i - 1) : NewIds[j] \in DOMAIN users]

PhoneInUse(phone) == \E i \in DOMAIN users : users[i].phone_number = phone

\* register: INSERT INTO users ... RETURNING id, then the reply for a test
\* number.
RegisterInsert(t, ok) ==
    /\ t \in http /\ t.endpoint = "register" /\ t.pc = "insert"
    /\ \E i \in 1..Len(NewIds) : NewIds[i] \notin DOMAIN users
    /\ IF ~ok
       THEN /\ Respond(t, 500, "Failed to insert user")
            /\ UNCHANGED users
       ELSE IF PhoneInUse(t.data.phone_number)
       THEN /\ Respond(t, 400, "Phone number already registered")
            /\ UNCHANGED users
       ELSE /\ users' = [i \in DOMAIN users \cup {NewId} |->
                           IF i = NewId
                           THEN [phone_number |-> t.data.phone_number,
                                 public_key |-> t.data.public_key,
                                 scope |-> "client", verified |-> FALSE]
                           ELSE users[i]]
            /\ IF t.data.phone_number \in TestPhones
               THEN Respond(t, 200, "Test registration data received")
               ELSE Continue(t, [t EXCEPT !.pc = "send"]) /\ UNCHANGED reply
    /\ UNCHANGED <<now, refresh_tokens, requests, issued, probe>>
    /\ UNCHANGED wsVars

\* send_verification_request at the end of register and of
\* request_verification_code: the SMS provider accepts or fails.
SendVerification(t, ok) ==
    /\ t \in http /\ t.pc = "send"
    /\ IF ok THEN Respond(t, 200, "Verification code sent")
       ELSE Respond(t, 500, "Failed to send verification")
    /\ UNCHANGED <<now, users, refresh_tokens, requests, issued, probe>>
    /\ UNCHANGED wsVars

\* request_verification_code: SELECT id, public_key FROM users WHERE
\* phone_number = $1, the signature check under that key, then the reply
\* for a test number.
CodeLookup(t, ok) ==
    /\ t \in http /\ t.endpoint = "request_verification_code"
    /\ t.pc = "lookup"
    /\ IF ~ok THEN Respond(t, 500, "Database error")
       ELSE IF ~PhoneInUse(t.data.phone_number)
       THEN Respond(t, 404, "User not found")
       ELSE LET id == CHOOSE i \in DOMAIN users :
                         users[i].phone_number = t.data.phone_number
            IN IF ~verify_signature(ToValue(t.endpoint, t.data), t.signature,
                                    users[id].public_key)
               THEN Respond(t, 400, "Invalid signature")
               ELSE IF t.data.phone_number \in TestPhones
               THEN Respond(t, 200, "Test registration data received")
               ELSE /\ Continue(t, [t EXCEPT !.pc = "send",
                                    !.public_key = users[id].public_key])
                    /\ UNCHANGED reply
    /\ UNCHANGED <<now, users, refresh_tokens, requests, issued, probe>>
    /\ UNCHANGED wsVars

\* A lookup that takes every signature for good.
SignatureUnchecked(t, ok) == ok /\ t.data.user_id \in DOMAIN users

\* SELECT ... FROM users WHERE id = $1 found the row and the signature of
\* the request verifies under the row's public key.
UserChecked(t, ok) ==
    /\ ok
    /\ t.data.user_id \in DOMAIN users
    /\ verify_signature(ToValue(t.endpoint, t.data), t.signature,
                        users[t.data.user_id].public_key)

\* The reply when it did not.
RejectLookup(t, ok) ==
    IF ~ok THEN Respond(t, 500, "Database error")
    ELSE IF t.data.user_id \notin DOMAIN users
    THEN Respond(t, 404, "User not found")
    ELSE Respond(t, 400, "Invalid signature")

\* What the handler keeps of the users row it read.
WithUser(t, pc) ==
    LET row == users[t.data.user_id] IN
    [t EXCEPT !.pc = pc, !.public_key = row.public_key,
              !.phone_number = row.phone_number, !.scope = row.scope,
              !.verified = row.verified]

\* The step of login after the verification code is accepted.
AfterCode(verified) == IF verified THEN "delete" ELSE "verify"

\* login: the users row, the signature check, and for a test number the
\* comparison of the code with "123456".
LoginLookup(t, ok) ==
    /\ t \in http /\ t.endpoint = "login" /\ t.pc = "lookup"
    /\ IF ~UserChecked(t, ok) THEN RejectLookup(t, ok)
       ELSE LET row == users[t.data.user_id] IN
            IF row.phone_number \notin TestPhones
            THEN Continue(t, WithUser(t, "check")) /\ UNCHANGED reply
            ELSE IF t.data.verification_code # "123456"
            THEN Respond(t, 400, "Invalid verification code")
            ELSE /\ Continue(t, WithUser(t, AfterCode(row.verified)))
                 /\ UNCHANGED reply
    /\ UNCHANGED <<now, users, refresh_tokens, requests, issued, probe>>
    /\ UNCHANGED wsVars

\* login: check_verification_code, answered by the SMS provider.
LoginCheck(t, answer) ==
    /\ t \in http /\ t.endpoint = "login" /\ t.pc = "check"
    /\ CASE answer = "error" ->
                Respond(t, 500, "Failed to check verification")
         [] answer = "rejected" ->
                Respond(t, 400, "Invalid verification code")
         [] answer = "approved" ->
                /\ Continue(t, [t EXCEPT !.pc = AfterCode(t.verified)])
                /\ UNCHANGED reply
    /\ UNCHANGED <<now, users, refresh_tokens, requests, issued, probe>>
    /\ UNCHANGED wsVars

\* login: UPDATE users SET verified = true WHERE id = $1
LoginVerify(t, ok) ==
    /\ t \in http /\ t.endpoint = "login" /\ t.pc = "verify"
    /\ IF ok
       THEN /\ users' = [i \in DOMAIN users |->
                           IF i = t.data.user_id
                           THEN [users[i] EXCEPT !.verified = TRUE]
                           ELSE users[i]]
            /\ Continue(t, [t EXCEPT !.pc = "delete"])
            /\ UNCHANGED reply
       ELSE /\ Respond(t, 500, "Failed to update user")
            /\ UNCHANGED users
    /\ UNCHANGED <<now, refresh_tokens, requests, issued, probe>>
    /\ UNCHANGED wsVars

\* login: DELETE FROM refresh_tokens WHERE user_id = $1 AND is_revoked =
\* false; an error is printed and the handler goes on.
LoginDelete(t, ok) ==
    /\ t \in http /\ t.endpoint = "login" /\ t.pc = "delete"
    /\ refresh_tokens' =
           IF ok THEN {r \in refresh_tokens :
                          r.user_id # t.data.user_id \/ r.is_revoked}
           ELSE refresh_tokens
    /\ Continue(t, [t EXCEPT !.pc = "insert"])
    /\ UNCHANGED <<now, users, requests, reply, issued, probe>>
    /\ UNCHANGED wsVars

\* generate_refresh_token: 64 random characters, here the number of the
\* request that draws them.
generate_refresh_token(t) == 10 + t.no

\* What login and refresh append to the credentials minted: the token and
\* the request it answers.
Minted(t, user_id) ==
    [token |-> generate_signed_encrypted_token(user_id, t.scope, now),
     no |-> t.no]

\* login: INSERT INTO refresh_tokens (token, user_id), then the access
\* token and the reply.
LoginInsert(t, ok) ==
    /\ t \in http /\ t.endpoint = "login" /\ t.pc = "insert"
    /\ IF ok
       THEN /\ refresh_tokens' = refresh_tokens \cup
                 {[token |-> generate_refresh_token(t),
                   user_id |-> t.data.user_id, is_revoked |-> FALSE,
                   expires_at |-> Null, last_used_at |-> Null]}
            /\ issued' = Append(issued, Minted(t, t.data.user_id))
            /\ Respond(t, 200, "Login successful")
       ELSE /\ Respond(t, 500, "Failed to save refresh token")
            /\ UNCHANGED <<refresh_tokens, issued>>
    /\ UNCHANGED <<now, users, requests, probe>>
    /\ UNCHANGED wsVars

\* SELECT * FROM refresh_tokens WHERE token = $1 AND user_id = $2
TokenRows(token, user_id) ==
    {r \in refresh_tokens : r.token = token /\ r.user_id = user_id}

\* refresh: the refresh_tokens row and its is_revoked.
RefreshLookupUnrevoked(t, ok) ==
    /\ t \in http /\ t.endpoint = "refresh" /\ t.pc = "lookup"
    /\ IF ~ok THEN Respond(t, 500, "Database error")
       ELSE IF TokenRows(t.data.refresh_token, t.data.user_id) = {}
       THEN Respond(t, 401, "Refresh token not found")
       ELSE Continue(t, [t EXCEPT !.pc = "user"]) /\ UNCHANGED reply
    /\ UNCHANGED <<now, users, refresh_tokens, requests, issued, probe>>
    /\ UNCHANGED wsVars

RefreshLookup(t, ok) ==
    /\ t \in http /\ t.endpoint = "refresh" /\ t.pc = "lookup"
    /\ IF ~ok THEN Respond(t, 500, "Database error")
       ELSE IF TokenRows(t.data.refresh_token, t.data.user_id) = {}
       THEN Respond(t, 401, "Refresh token not found")
       ELSE IF \E r \in TokenRows(t.data.refresh_token, t.data.user_id) :
                  r.is_revoked
       THEN Respond(t, 401, "Invalid refresh token")
       ELSE Continue(t, [t EXCEPT !.pc = "user"]) /\ UNCHANGED reply
    /\ UNCHANGED <<now, users, refresh_tokens, requests, issued, probe>>
    /\ UNCHANGED wsVars

\* refresh: the users row of the token's user and the signature check.
RefreshUser(t, ok) ==
    /\ t \in http /\ t.endpoint = "refresh" /\ t.pc = "user"
    /\ IF ~UserChecked(t, ok) THEN RejectLookup(t, ok)
       ELSE Continue(t, WithUser(t, "update")) /\ UNCHANGED reply
    /\ UNCHANGED <<now, users, refresh_tokens, requests, issued, probe>>
    /\ UNCHANGED wsVars

\* refresh: UPDATE refresh_tokens SET last_used_at = $1 WHERE token = $2,
\* then the access token and the reply.
RefreshUpdate(t, ok) ==
    /\ t \in http /\ t.endpoint = "refresh" /\ t.pc = "update"
    /\ IF ok
       THEN /\ refresh_tokens' =
                 {IF r.token = t.data.refresh_token
                  THEN [r EXCEPT !.last_used_at = now] ELSE r :
                  r \in refresh_tokens}
            /\ issued' = Append(issued, Minted(t, t.data.user_id))
            /\ Respond(t, 200, "Token refreshed successfully")
       ELSE /\ Respond(t, 500, "Failed to update refresh token")
            /\ UNCHANGED <<refresh_tokens, issued>>
    /\ UNCHANGED <<now, users, requests, probe>>
    /\ UNCHANGED wsVars

\* logout and delete_account: the users row and the signature check.
OwnerLookup(t, ok) ==
    /\ t \in http /\ t.endpoint \in {"logout", "delete_account"}
    /\ t.pc = "lookup"
    /\ IF ~UserChecked(t, ok) THEN RejectLookup(t, ok)
       ELSE Continue(t, WithUser(t, "delete")) /\ UNCHANGED reply
    /\ UNCHANGED <<now, users, refresh_tokens, requests, issued, probe>>
    /\ UNCHANGED wsVars

LogoutKeepsRow(t, ok) ==
    /\ t \in http /\ t.endpoint = "logout" /\ t.pc = "delete"
    /\ IF ~ok THEN Respond(t, 500, "Failed to delete refresh token")
       ELSE IF TokenRows(t.data.refresh_token, t.data.user_id) # {}
       THEN Respond(t, 200, "Logged out successfully")
       ELSE Respond(t, 404, "Refresh token not found for this user")
    /\ UNCHANGED <<now, users, refresh_tokens, requests, issued, probe>>
    /\ UNCHANGED wsVars

\* logout: DELETE FROM refresh_tokens WHERE token = $1 AND user_id = $2
LogoutDelete(t, ok) ==
    /\ t \in http /\ t.endpoint = "logout" /\ t.pc = "delete"
    /\ IF ~ok
       THEN /\ Respond(t, 500, "Failed to delete refresh token")
            /\ UNCHANGED refresh_tokens
       ELSE /\ refresh_tokens' = refresh_tokens \
                 TokenRows(t.data.refresh_token, t.data.user_id)
            /\ IF TokenRows(t.data.refresh_token, t.data.user_id) # {}
               THEN Respond(t, 200, "Logged out successfully")
               ELSE Respond(t, 404, "Refresh token not found for this user")
    /\ UNCHANGED <<now, users, requests, issued, probe>>
    /\ UNCHANGED wsVars

\* delete_account: one transaction that deletes the user's refresh tokens,
\* pets and users row; any error rolls it back.
DeleteAccount(t, ok) ==
    /\ t \in http /\ t.endpoint = "delete_account" /\ t.pc = "delete"
    /\ IF ok
       THEN /\ refresh_tokens' =
                 {r \in refresh_tokens : r.user_id # t.data.user_id}
            /\ users' = [i \in DOMAIN users \ {t.data.user_id} |-> users[i]]
            /\ Respond(t, 200, "Account and all personal data deleted")
       ELSE /\ Respond(t, 500, "Failed to delete account")
            /\ UNCHANGED <<users, refresh_tokens>>
    /\ UNCHANGED <<now, requests, issued, probe>>
    /\ UNCHANGED wsVars

\* What the clients send.  Ages of the declared timestamp, in seconds, for
\* requests that arrive at time Epoch.
Ages == {0, 61}
Stamps == {Timestamp(Epoch - a) : a \in Ages}
RequestUsers == {"c1", "c2", "g"}
Codes == {"123456", "000000"}
\* Refresh tokens a client may hold: the stored ones and the one the first
\* login of this run issues.
HeldTokens == {1, 2, 11}
ClientKeys == {"key-c1", "key-c2"}

Payloads(endpoint) ==
    CASE endpoint = "register" ->
            {Data(p, "key-c1", "", Null, "", ts) :
                p \in Phones, ts \in Stamps}
      [] endpoint = "request_verification_code" ->
            {Data(p, "", "", Null, "", ts) : p \in Phones, ts \in Stamps}
      [] endpoint = "login" ->
            {Data("", "", c, Null, u, ts) :
                c \in Codes, u \in RequestUsers, ts \in Stamps}
      [] endpoint \in {"refresh", "logout"} ->
            {Data("", "", "", r, u, ts) :
                r \in HeldTokens, u \in RequestUsers, ts \in Stamps}
      [] endpoint = "delete_account" ->
            {Data("", "", "", Null, u, ts) :
                u \in RequestUsers, ts \in Stamps}

\* The canonical JSON the signing side computes for each payload.
ClientCanonical ==
    [endpoint \in Endpoints |->
        [data \in Payloads(endpoint) |->
            testing_utils_to_canonical_json(ToValue(endpoint, data))]]

\* A client signs the canonical JSON of its payload with its private key.
SignedBy(endpoint, data, key) == Sign(ClientCanonical[endpoint][data], key)

\* The same payload with another of the timestamps.
Restamped(data) ==
    [data EXCEPT !.timestamp =
        CHOOSE ts \in Stamps : ts # data.timestamp]

\* The signature a request carries: made over its payload with a client's
\* key, made with c1's key over the payload before its timestamp was
\* changed, or no signature at all.
Signatures(endpoint, data) ==
    {SignedBy(endpoint, data, k) : k \in ClientKeys}
    \cup {SignedBy(endpoint, Restamped(data), "key-c1"), NoSignature}

HttpRequest ==
    \E endpoint \in Endpoints :
        \E data \in Payloads(endpoint) :
            \E signature \in Signatures(endpoint, data) :
                Arrive(endpoint, data, signature)

HttpStep ==
    \E t \in http, ok \in BOOLEAN :
        \/ RegisterInsert(t, ok)
        \/ SendVerification(t, ok)
        \/ CodeLookup(t, ok)
        \/ LoginLookup(t, ok)
        \/ \E answer \in {"approved", "rejected", "error"} :
               ok /\ LoginCheck(t, answer)
        \/ LoginVerify(t, ok)
        \/ LoginDelete(t, ok)
        \/ LoginInsert(t, ok)
        \/ RefreshLookup(t, ok)
        \/ RefreshUser(t, ok)
        \/ RefreshUpdate(t, ok)
        \/ OwnerLookup(t, ok)
        \/ LogoutDelete(t, ok)
        \/ DeleteAccount(t, ok)

\* The signed endpoints alone: requests arrive and their handlers interleave
\* at every await.
NextAuth ==
    \/ HttpRequest
    \/ HttpStep

InitAuth == Init /\ conversations = <<>>

SpecAuth == InitAuth /\ [][NextAuth]_vars

\* ------------------------------------------- functions of utils.rs, alone
\* is_timestamp_valid on timestamps from 70 s before to 10 s after the
\* server's time, and on text that does not parse.
ProbedTimestamps ==
    {Timestamp(Epoch - d) : d \in -10..70} \cup {Unparsable}

InitFresh ==
    /\ WsInit /\ conversations = <<>>
    /\ AuthInit
    /\ \E timestamp \in ProbedTimestamps :
           probe = [fn |-> "is_timestamp_valid", timestamp |-> timestamp,
                    done |-> FALSE, result |-> FALSE]

CheckTimestamp ==
    /\ probe.fn = "is_timestamp_valid" /\ ~probe.done
    /\ probe' = [probe EXCEPT !.done = TRUE,
                              !.result = is_timestamp_valid(probe.timestamp,
                                                            now)]
    /\ UNCHANGED <<now, users, refresh_tokens, http, requests, reply, issued>>
    /\ UNCHANGED wsVars

SpecFresh == InitFresh /\ [][CheckTimestamp]_vars

\* Session credentials minted and verified while time passes.
MaxMints == 2
\* The instants the clock is read at, as seconds after start-up: around the
\* issue time, around exp = issue + 1 day, and around the end of the leeway.
Offsets == {0, 1, Day - 1, Day, Day + 1, Day + Leeway, Day + Leeway + 1}
Instants == {Epoch + o : o \in Offsets}

\* Tokens a caller can present: credentials the server minted, the same
\* made by a holder of the server's keys with another iss or aud, one
\* signed with another key, one encrypted under another key, and text that
\* is no base64.
Presentable ==
    LET minted == {issued[i].token : i \in 1..Len(issued)}
    IN  minted
        \cup {[e EXCEPT !.claims.iss = "Other"] : e \in minted}
        \cup {[e EXCEPT !.claims.aud = "Other"] : e \in minted}
        \cup {[e EXCEPT !.signer = "OTHER_PRIVATE_KEY"] : e \in minted}
        \cup {[e EXCEPT !.key = "OTHER_KEY"] : e \in minted}
        \cup {Garbage}

InitToken ==
    /\ WsInit /\ conversations = <<>>
    /\ AuthInit
    /\ probe = NoProbe

\* Utc::now() moves on.
Tick ==
    /\ \E t \in Instants : t > now /\ now' = t
    /\ UNCHANGED <<users, refresh_tokens, http, requests, reply, issued, probe>>
    /\ UNCHANGED wsVars

\* generate_signed_encrypted_token(user_id, scope of that user).
MintToken ==
    /\ Len(issued) < MaxMints
    /\ \E user_id \in DOMAIN users :
           issued' = Append(issued,
               [token |-> generate_signed_encrypted_token(
                              user_id, users[user_id].scope, now),
                no |-> 0])
    /\ UNCHANGED <<now, users, refresh_tokens, http, requests, reply, probe>>
    /\ UNCHANGED wsVars

\* verify_and_decode_token(encrypted_token).
VerifyToken ==
    /\ \E encrypted_token \in Presentable :
           probe' = [fn |-> "verify_and_decode_token",
                     token |-> encrypted_token, at |-> now,
                     result |-> verify_and_decode_token(encrypted_token, now)]
    /\ UNCHANGED <<now, users, refresh_tokens, http, requests, reply, issued>>
    /\ UNCHANGED wsVars

NextToken == Tick \/ MintToken \/ VerifyToken

SpecToken == InitToken /\ [][NextToken]_vars

\* JSON payloads for the two canonical encodings: objects over the keys "a"
\* and "b" (inserted in either order) whose values are scalars, arrays, or
\* such objects of scalars.
Scalars == {JStr("x"), JNum(5)}
ObjectsOver(values) ==
    {JObj(<<Member(k, v)>>) : k \in {"a", "b"}, v \in values}
    \cup {JObj(<<Member(k[1], v), Member(k[2], w)>>) :
              k \in {<<"a", "b">>, <<"b", "a">>}, v \in values, w \in values}
ArraysOver(values) == {JArr(<<>>)} \cup {JArr(<<v>>) : v \in values}
Inner == Scalars \cup ObjectsOver(Scalars) \cup ArraysOver(Scalars)
JsonValues == ObjectsOver(Inner)

InitCanon ==
    /\ WsInit /\ conversations = <<>>
    /\ AuthInit
    /\ \E value \in JsonValues :
           probe = [fn |-> "to_canonical_json", value |-> value,
                    done |-> FALSE, server |-> "", signer |-> "",
                    verified |-> FALSE]

\* The client signs its canonical JSON of the payload; the server verifies
\* the signature over its own.
Canonicalize ==
    /\ probe.fn = "to_canonical_json" /\ ~probe.done
    /\ LET signed == testing_utils_to_canonical_json(probe.value)
       IN probe' = [probe EXCEPT
               !.done = TRUE,
               !.server = to_canonical_json(probe.value),
               !.signer = signed,
               !.verified = verify_signature(probe.value,
                                Sign(signed, "key-c1"), "key-c1")]
    /\ UNCHANGED <<now, users, refresh_tokens, http, requests, reply, issued>>
    /\ UNCHANGED wsVars

SpecCanon == InitCanon /\ [][Canonicalize]_vars

\* ------------------------------------- main.rs: the bearer endpoints
MaxCalls == 2
\* get_profiles takes web::Query<ProfilesQuery> (user_ids is required),
\* update_profile web::Json<UpdateProfileData>, get_images
\* web::Query<GetImagesQuery> (its one field is optional).
BearerEndpoints == {"get_profiles", "update_profile", "get_images"}

\* The Authorization header: whether it is there, and its value split at
\* whitespace.
Header(present, parts) == [present |-> present, parts |-> parts]

\* Session credentials a caller may hold: one of c1 and one of p1 minted
\* now, one of c1 minted long enough ago to have expired, one signed with
\* another key, and text that is no token.
CallerTokens ==
    {generate_signed_encrypted_token("c1", "client", Epoch),
     generate_signed_encrypted_token("p1", "provider", Epoch),
     generate_signed_encrypted_token("c1", "client", Epoch - 1 - Leeway - Day),
     [generate_signed_encrypted_token("c1", "client", Epoch)
         EXCEPT !.signer = "OTHER_PRIVATE_KEY"],
     Garbage}

Headers ==
    {Header(FALSE, <<>>), Header(TRUE, <<>>), Header(TRUE, <<"Bearer">>)}
    \cup {Header(TRUE, <<scheme, token>>) :
              scheme \in {"Bearer", "bearer"}, token \in CallerTokens}

\* A call to a bearer endpoint being handled; `well_formed`: its query
\* string or JSON body deserializes into what the handler takes.
Call(no, endpoint, header, well_formed) ==
    [no |-> no, endpoint |-> endpoint, header |-> header,
     well_formed |-> well_formed, pc |-> "extract"]

\* The extractors of the handler's parameters succeed.
Extracts(t) == t.endpoint = "get_images" \/ t.well_formed

\* The token of `Bearer <token>`, verified.
BearerOk(header) ==
    /\ header.present
    /\ Len(header.parts) = 2 /\ header.parts[1] = "Bearer"
    /\ verify_and_decode_token(header.parts[2], now).ok

\* The HTTP server takes a call.
BearerArrive(endpoint, header, well_formed) ==
    /\ requests < MaxCalls
    /\ requests' = requests + 1
    /\ http' = http \cup {Call(requests + 1, endpoint, header, well_formed)}
    /\ UNCHANGED <<now, users, refresh_tokens, reply, issued, probe>>
    /\ UNCHANGED wsVars

\* actix extracts the handler's parameters and answers 400 when one does
\* not deserialize; then the handler runs up to its first store call.
BearerHandler(t) ==
    /\ t \in http /\ t.endpoint \in BearerEndpoints /\ t.pc = "extract"
    /\ IF ~Extracts(t) THEN Respond(t, 400, "deserialize error")
       ELSE IF ~t.header.present
       THEN Respond(t, 401, "Missing Authorization header")
       ELSE IF ~(Len(t.header.parts) = 2 /\ t.header.parts[1] = "Bearer")
       THEN Respond(t, 401, "Invalid Authorization header")
       ELSE IF ~verify_and_decode_token(t.header.parts[2], now).ok
       THEN Respond(t, 401, "Invalid token")
       ELSE Continue(t, [t EXCEPT !.pc = "store"]) /\ UNCHANGED reply
    /\ UNCHANGED <<now, users, refresh_tokens, requests, issued, probe>>
    /\ UNCHANGED wsVars

\* The handler's store calls and its answer.
BearerStore(t, ok) ==
    /\ t \in http /\ t.endpoint \in BearerEndpoints /\ t.pc = "store"
    /\ IF ok THEN Respond(t, 200, "") ELSE Respond(t, 500, "Database error")
    /\ UNCHANGED <<now, users, refresh_tokens, requests, issued, probe>>
    /\ UNCHANGED wsVars

BearerCall ==
    \E endpoint \in BearerEndpoints, header \in Headers,
       well_formed \in BOOLEAN :
        BearerArrive(endpoint, header, well_formed)

BearerStep ==
    \E t \in http : \/ BearerHandler(t)
                    \/ \E ok \in BOOLEAN : BearerStore(t, ok)

NextBearer == BearerCall \/ BearerStep

SpecBearer == InitAuth /\ [][NextBearer]_vars

\* ------------------------------- get_conversation_messages, its arithmetic
\* The pages asked for: the first ones, the ones around the first page whose
\* offset + limit and whose offset leave i32 with limit = 100, one whose
\* offset wraps to a small positive number, the greatest, and invalid ones.
Pages ==
    {-1, 0, 1, 2, 3, 21474836, 21474837, 21474838, 42949673, 42949674,
     MaxI32}
Limits == {0, 1, 2, 50, 100, 101}
\* SELECT COUNT(*) of the conversation.
Totals == {0, 1, 150}

\* What get_conversation_messages computes of page, limit and the count:
\* Err for invalid paging; a panic where the build checks overflow and an
\* operation leaves i32; else the wrapped values, and Err of the store for a
\* negative OFFSET.  `wrapped`: a value that left i32 was computed.
Paging(page, limit, total_count, overflow_checks) ==
    LET offset == Offset(page, limit)
        mul == MulOverflows(page - 1, limit)
        add == AddOverflows(offset, limit)
        Result(outcome, wrapped, has_more) ==
            [outcome |-> outcome, wrapped |-> wrapped,
             offset |-> offset, has_more |-> has_more]
    IN IF ~ValidPaging(page, limit)
       THEN [outcome |-> "Err", wrapped |-> FALSE, offset |-> 0,
             has_more |-> FALSE]
       ELSE IF mul /\ overflow_checks THEN Result("panic", TRUE, FALSE)
       ELSE IF offset < 0 THEN Result("Err", mul, FALSE)
       ELSE IF add /\ overflow_checks THEN Result("panic", TRUE, FALSE)
       ELSE Result("Ok", mul \/ add,
                   wrapping_add(offset, limit) < total_count)

InitPaging ==
    /\ WsInit /\ conversations = <<>>
    /\ AuthInit
    /\ \E page \in Pages, limit \in Limits, total_count \in Totals :
           probe = [fn |-> "get_conversation_messages", page |-> page,
                    limit |-> limit, total_count |-> total_count,
                    done |-> FALSE]

\* One call; the profile the crate is built with decides whether overflow
\* is checked.
ComputePaging ==
    /\ probe.fn = "get_conversation_messages" /\ ~probe.done
    /\ \E overflow_checks \in BOOLEAN :
           probe' = [fn |-> probe.fn, page |-> probe.page,
                     limit |-> probe.limit,
                     total_count |-> probe.total_count, done |-> TRUE,
                     result |-> Paging(probe.page, probe.limit,
                                       probe.total_count, overflow_checks)]
    /\ UNCHANGED <<now, users, refresh_tokens, http, requests, reply, issued>>
    /\ UNCHANGED wsVars

SpecPaging == InitPaging /\ [][ComputePaging]_vars

\* ------------------------------------------------------------- properties
\* The WsMessages written to the socket of connection k so far.
Delivered(k) == Range(recv[k])

\* The WsMessages in the server's mailbox, not yet fanned out.
InFlight ==
    {mailbox[i].ev : i \in {j \in 1..Len(mailbox) :
        mailbox[j].type \in {"BroadcastMessage", "BroadcastToConversation"}}}

\* The user is the client of the conversation or one of its providers.
Participant(user, conv) == IsClientOf(user, conv) \/ IsProviderOf(user, conv)

\* The messages row the INSERT of inbound frame `no` left, if any.
RowsOf(no) == {m \in 1..Len(messages) : messages[m].no = no}

\* C1: the senderId of every persisted Message, and so of the message_sent
\* event that carries the row, is the identity of the connection the send
\* arrived on, whatever the payload names as sender.
C1_SenderIsConnectionIdentity ==
    /\ \A m \in 1..Len(messages) :
           messages[m].sender = connId[messages[m].conn]
    /\ \A ev \in InFlight \cup UNION {Delivered(k) : k \in Conns} :
           ev.event = "message_sent"
               => messages[ev.msg].sender = connId[ev.from]

\* What verify_and_decode_token makes of a credential: its subject, if it is
\* well formed, signed by the service and not expired.
VerifiedSubject(cred) == IF cred.kind = "valid" THEN cred.sub ELSE NoId

\* C2: a connection is in the session registry under an identity only if its
\* opening request carried a credential that verified to that identity; a
\* request with a missing, malformed or expired credential gets no session.
C2_SessionNeedsVerifiedCredential ==
    /\ \A i \in Ids :
           sessions[i] # NoConn => VerifiedSubject(connCred[sessions[i]]) = i
    /\ \A k \in Conns :
           connState[k] # "new" => VerifiedSubject(connCred[k]) = connId[k]

\* The "error" events that deny a "message" frame.
SendDenials ==
    {ev \in InFlight \cup UNION {Delivered(k) : k \in Conns} :
        /\ ev.event = "error"
        /\ ev.message
             = "You are not authorized to send messages in this conversation"}

\* C3: a send of requester r to conversation c persists a Message if and only
\* if r is the client of c or among its providers: every row comes from a
\* participant, and no participant's send is refused as unauthorized.
C3_PersistsIffParticipant ==
    /\ \A m \in 1..Len(messages) :
           Participant(connId[messages[m].conn], messages[m].conv)
    /\ \A ev \in SendDenials : ~Participant(connId[ev.from], ev.conv)

\* The server is taking the BroadcastToConversation of a message_sent event
\* from its mailbox.
FanOutOfSend ==
    /\ mailbox # <<>>
    /\ Head(mailbox).type = "BroadcastToConversation"
    /\ Head(mailbox).ev.event = "message_sent"
    /\ mailbox' = Tail(mailbox)

\* Connection k is given the event at the head of the mailbox in this step.
Receives(k) == recv'[k] = Append(recv[k], Head(mailbox).ev)

\* The subscribers of the conversation at the head of the mailbox.
MembersAtHead == subs[Head(mailbox).conv].members

\* How many times connection k was given the message_sent of frame `no`.
TimesSent(k, no) ==
    Cardinality({i \in 1..Len(recv[k]) :
        recv[k][i].event = "message_sent" /\ recv[k][i].no = no})

\* A message_sent event is only ever delivered for a row that was persisted,
\* and at most once to a connection.
SentOnlyIfPersisted ==
    \A k \in Conns : \A ev \in Delivered(k) :
        ev.event = "message_sent"
            => /\ ev.msg \in RowsOf(ev.no)
               /\ TimesSent(k, ev.no) = 1

\* C4 (as stated): after a successful send every identity in the
\* conversation's member set at the time the broadcast is processed receives
\* exactly one message_sent event, no connection outside the member set
\* receives it, and none is delivered for a message that was not persisted.
C4_EveryMemberReceives ==
    /\ []SentOnlyIfPersisted
    /\ [][FanOutOfSend =>
            /\ \A u \in MembersAtHead :
                   sessions[u] # NoConn /\ Receives(sessions[u])
            /\ \A k \in Conns :
                   recv'[k] # recv[k]
                       => \E u \in MembersAtHead : sessions[u] = k]_vars

\* C4 (amended): when the broadcast of a persisted message is processed, the
\* connections given its message_sent event, once each, are exactly the ones
\* registered for a member of the conversation and still open; members with
\* no registered or no open connection, and everybody else, get nothing.
C4_OpenMemberChannelsReceive ==
    /\ []SentOnlyIfPersisted
    /\ [][FanOutOfSend =>
            \A k \in Conns :
                IF /\ connState[k] # "closed"
                   /\ \E u \in MembersAtHead : sessions[u] = k
                THEN Receives(k)
                ELSE recv'[k] = recv[k]]_vars

\* C4, its case: a member's connection holds a message_sent event while
\* another registered, open connection that is not a member's holds none.
C4_Witness ==
    \E k, j \in Conns :
        /\ \E ev \in Delivered(k) : ev.event = "message_sent"
        /\ j # k /\ connState[j] = "open" /\ sessions[connId[j]] = j
        /\ \A ev \in Delivered(j) : ev.event # "message_sent"

\* A "message" future of conversation c stands between its INSERT and its
\* UPDATE.
HalfDone(c) ==
    \E t \in tasks : t.kind = "message" /\ t.conv = c /\ t.pc = "update"

\* The row of conversation c that was inserted last.
LatestRow(c) ==
    CHOOSE m \in MessagesOf(c) : \A n \in MessagesOf(c) : n <= m

\* C5: under any interleaving of sends to one conversation, whenever no send
\* is half-done (and no store call has failed) last_message is the content
\* of the most recently persisted Message of the conversation, and a
\* successful send has left exactly one row.
C5_SummaryIsLatestMessage ==
    /\ \A c \in ConvRows :
           dbErr = {} /\ ~HalfDone(c) /\ MessagesOf(c) # {}
               => conversations[c].last_message
                      = messages[LatestRow(c)].content
    /\ \A ev \in InFlight \cup UNION {Delivered(k) : k \in Conns} :
           ev.event = "message_sent" => Cardinality(RowsOf(ev.no)) = 1

\* C6: appending a message is all-or-nothing: a send whose INSERT or UPDATE
\* failed, and so is reported as "Error sending message", leaves no row in
\* messages.
C6_FailedSendLeavesNoRow ==
    /\ \A f \in dbErr :
           f.kind = "message" /\ f.call \in {"insert", "update"}
               => RowsOf(f.no) = {}
    /\ \A ev \in InFlight \cup UNION {Delivered(k) : k \in Conns} :
           ev.event = "error" /\ ev.message = "Error sending message"
               => RowsOf(ev.no) = {}

\* The "error" events that refuse a requester for lack of membership or
\* scope.
IsDenial(ev) ==
    /\ ev.event = "error"
    /\ ev.message \in
         {"You are not authorized to send messages in this conversation",
          "You are not authorized to access this conversation history",
          "Only clients can create conversations"}

\* C7: a refused send, history fetch or create is answered to the requester
\* alone: no connection of another identity is given the error, nothing is
\* persisted for the frame and the subscription index is not changed by it.
C7_DenialReachesRequesterOnly ==
    /\ \A k \in Conns : \A ev \in Delivered(k) :
           IsDenial(ev) => connId[k] = connId[ev.from]
    /\ \A ev \in InFlight \cup UNION {Delivered(k) : k \in Conns} :
           IsDenial(ev)
               => /\ RowsOf(ev.no) = {}
                  /\ \A c \in ConvRows : conversations[c].no # ev.no
                  /\ ev.no \notin indexChanged

\* C8: a store failure during a send, a create or a history fetch leaves the
\* subscription index as it was before the frame was received: the frame
\* causes no change of the index.
C8_StoreFailureKeepsIndex ==
    \A f \in dbErr :
        f.kind \in {"message", "new_conversation", "conversation_history"}
            => f.no \notin indexChanged

\* The future of inbound frame `no` has run to its end.
Finished(no) == \A t \in tasks : t.no # no

\* C9: for every event kind a store error is reported as an "error" event to
\* the requester and to no other connection: an error caused by a failed
\* store call is on no connection of another identity, and once the
\* handling has finished the requester, if still connected, holds (or is
\* about to be sent) an error for the frame.
C9_StoreErrorReportedToRequester ==
    /\ \A k \in Conns : \A ev \in Delivered(k) :
           ev.event = "error" /\ (\E f \in dbErr : f.no = ev.no)
               => connId[k] = connId[ev.from]
    /\ \A f \in dbErr :
           Finished(f.no) /\ connState[f.conn] # "closed"
               => \E ev \in InFlight \cup Delivered(f.conn) :
                      ev.event = "error" /\ ev.no = f.no

\* C10: conversation_created is delivered to the creator's connection only:
\* no connection of another identity receives it.
C10_CreatedReachesCreatorOnly ==
    \A k \in Conns : \A ev \in Delivered(k) :
        ev.event = "conversation_created" => connId[k] = connId[ev.from]

\* How many times connection k was given the new_conversation_invitation of
\* frame `no`.
TimesInvited(k, no) ==
    Cardinality({i \in 1..Len(recv[k]) :
        recv[k][i].event = "new_conversation_invitation"
            /\ recv[k][i].no = no})

\* Nothing that inbound frame `no` caused is still waiting in the server's
\* mailbox.
Settled(no) ==
    /\ Finished(no)
    /\ \A i \in 1..Len(mailbox) :
           mailbox[i].type \in {"BroadcastMessage", "BroadcastToConversation"}
               => mailbox[i].ev.no # no

\* The server is taking the BroadcastToConversation of an invitation from
\* its mailbox.
FanOutOfInvitation ==
    /\ mailbox # <<>>
    /\ Head(mailbox).type = "BroadcastToConversation"
    /\ Head(mailbox).ev.event = "new_conversation_invitation"
    /\ mailbox' = Tail(mailbox)

\* The creator and the named providers of conversation c.
Invitees(c) ==
    {conversations[c].client} \cup Range(conversations[c].providers)

\* C11: on a successful create the creator and every named provider are
\* members of the new conversation when the invitation broadcast is
\* processed, and each of them with a live channel is given the invitation
\* exactly once, whatever the number of named providers: never twice, and
\* once everything the create caused has been processed the creator's
\* registered, open connection holds one.
C11_InvitedExactlyOnce ==
    /\ [](\A k \in Conns : \A c \in ConvRows :
            /\ TimesInvited(k, conversations[c].no) <= 1
            /\ ( /\ conversations[c].no # 0
                 /\ Settled(conversations[c].no)
                 /\ connState[k] = "open"
                 /\ connId[k] = conversations[c].client
                 /\ sessions[connId[k]] = k
                 /\ subs[c].present /\ connId[k] \in subs[c].members )
               => TimesInvited(k, conversations[c].no) = 1)
    /\ [][FanOutOfInvitation =>
            Invitees(Head(mailbox).conv) \subseteq MembersAtHead]_vars

\* The users row of the identity has scope client.
HasClientScope(user) == user \in DOMAIN Scope /\ Scope[user] = "client"

\* The future of a "new_conversation" frame takes its step.
CreateStepOf(t) ==
    /\ t \in tasks /\ t.kind = "new_conversation"
    /\ t \notin tasks' /\ connState' = connState

\* The refusal of a "new_conversation" frame, as sent to the server.
CreateDenial(t) ==
    MBroadcast(ErrorEv("Only clients can create conversations", 0, t.conn,
                       t.no))

C13_FlatParamsAreASend ==
    \A k \in Conns : \A ev \in Delivered(k) :
        ev.event = "text" /\ ev.text = "Invalid message data format"
            => ~Participant(connId[ev.from], ev.conv)

\* The server is taking a BroadcastToConversation from its mailbox.
FanOut ==
    /\ mailbox # <<>>
    /\ Head(mailbox).type = "BroadcastToConversation"
    /\ mailbox' = Tail(mailbox)

\* Connection k is the registered channel of a member of the conversation
\* at the head of the mailbox, and its session has not stopped.
LiveMemberChannel(k) ==
    /\ connState[k] # "closed"
    /\ \E u \in MembersAtHead : sessions[u] = k

\* C14: processing broadcast(c, e) gives e exactly once to the live channel
\* of every member of c and nothing to anybody else; members without a live
\* channel and a conversation without an entry make it a no-op; the session
\* registry and the subscription index are left as they were.
C14_BroadcastReachesLiveMembers ==
    [][FanOut =>
        /\ \A k \in Conns :
               IF LiveMemberChannel(k) THEN Receives(k)
               ELSE recv'[k] = recv[k]
        /\ sessions' = sessions
        /\ subs' = subs]_vars

\* C14, its case: a member's connection holds a broadcast user_joined event
\* while another registered, open connection holds none.
C14_Witness ==
    \E k, j \in Conns :
        /\ \E ev \in Delivered(k) : ev.event = "user_joined"
        /\ j # k /\ connState[j] = "open" /\ sessions[connId[j]] = j
        /\ \A ev \in Delivered(j) : ev.event # "user_joined"

\* The server is taking a Disconnect from its mailbox.
DisconnectStep ==
    /\ mailbox # <<>>
    /\ Head(mailbox).type = "Disconnect"
    /\ mailbox' = Tail(mailbox)

\* No Disconnect of identity i is waiting in the server's mailbox.
NoDisconnectPending(i) ==
    \A n \in 1..Len(mailbox) :
        mailbox[n].type = "Disconnect" => mailbox[n].id # i

\* C15: once disconnect(i) is processed i has no channel in the session
\* registry and is in no member set, and the channel and the memberships of
\* every other identity are as before.
C15_DisconnectPurgesIdentity ==
    [][DisconnectStep =>
        LET i == Head(mailbox).id IN
        /\ sessions'[i] = NoConn
        /\ \A c \in ConvIds : i \notin subs'[c].members
        /\ \A j \in Ids \ {i} :
               /\ sessions'[j] = sessions[j]
               /\ \A c \in ConvIds :
                      j \in subs'[c].members <=> j \in subs[c].members]_vars

\* C15, its case: an identity that had subscribed over its connection has
\* disconnected and is gone from the registry and the member set, while
\* another identity is still registered and a member of a conversation.
C15_Witness ==
    \E k \in Conns :
        /\ connState[k] = "closed" /\ NoDisconnectPending(connId[k])
        /\ sessions[connId[k]] = NoConn
        /\ \E ev \in Delivered(k) :
               /\ ev.event = "subscribed" /\ ev.no \in indexChanged
               /\ connId[k] \notin subs[ev.conv].members
        /\ \E j \in Ids \ {connId[k]} :
               /\ sessions[j] # NoConn
               /\ \E c \in ConvIds : j \in subs[c].members

\* The server is taking a Connect from its mailbox.
ConnectStep ==
    /\ mailbox # <<>>
    /\ Head(mailbox).type = "Connect"
    /\ mailbox' = Tail(mailbox)

\* The server is taking any message from its mailbox.
ServerTakes == mailbox # <<>> /\ mailbox' = Tail(mailbox)

\* The events that reach a session through the registry only.
IsFannedOut(ev) ==
    ev.event \in {"message_sent", "conversation_created",
                  "new_conversation_invitation", "user_joined", "user_left"}

\* C16: the session registry holds at most one channel per identity;
\* connect(i, ch) makes ch the channel of i, replacing the one it had, and
\* leaves the subscriptions and every other identity's channel as they
\* were; what the server delivers goes to registered channels only, so
\* after a replacement to ch and not to the channel replaced.
C16_ConnectReplacesChannel ==
    /\ [](\A i \in Ids : sessions[i] \in Conns \cup {NoConn})
    /\ [][ConnectStep =>
            /\ sessions'[Head(mailbox).id] = Head(mailbox).conn
            /\ \A j \in Ids \ {Head(mailbox).id} : sessions'[j] = sessions[j]
            /\ subs' = subs
            /\ recv' = recv]_vars
    /\ [][ServerTakes =>
            \A k \in Conns :
                recv'[k] # recv[k] => sessions[connId[k]] = k]_vars

\* C16, its case: two open connections of one identity, the second
\* registered in place of the first, and a fanned-out event that reached
\* the second and not the first.
C16_Witness ==
    \E k, j \in Conns :
        /\ k # j /\ connId[k] = connId[j]
        /\ connState[k] = "open" /\ connState[j] = "open"
        /\ sessions[connId[j]] = j
        /\ \E ev \in Delivered(j) : IsFannedOut(ev) /\ ev \notin Delivered(k)

\* C17: in every reachable state no conversation key of the subscription
\* index maps to an empty member set: an entry is there exactly when it has
\* a member.
C17_NoEmptyMemberSet ==
    \A c \in ConvIds : subs[c].present <=> subs[c].members # {}

\* C17, its case: an unsubscribe_conversation frame was processed, changed
\* the index, and the conversation it names has no entry any more.
C17_Witness ==
    \E k \in Conns : \E ev \in Delivered(k) :
        /\ ev.event = "unsubscribed"
        /\ ev.no \in indexChanged
        /\ ~subs[ev.conv].present

\* The server is taking a SubscribeToConversation / an
\* UnsubscribeFromConversation from its mailbox.
SubscribeStep ==
    /\ mailbox # <<>>
    /\ Head(mailbox).type = "Subscribe"
    /\ mailbox' = Tail(mailbox)

UnsubscribeStep ==
    /\ mailbox # <<>>
    /\ Head(mailbox).type = "Unsubscribe"
    /\ mailbox' = Tail(mailbox)

\* The (un)subscription that inbound frame `no` asked for has been handled.
IndexRequestHandled(no) ==
    \A n \in 1..Len(mailbox) :
        mailbox[n].type \in {"Subscribe", "Unsubscribe"}
            => mailbox[n].no # no

\* C18: subscribe(i, c) applied twice leaves the index that applying it once
\* leaves; unsubscribe(i, c) of a non-member, or for a conversation with no
\* entry, leaves the subscription index and the session registry unchanged.
C18_SubscribeIdempotentUnsubscribeNoOp ==
    /\ [](\A i \in Ids : \A c \in ConvIds :
            /\ subscribe_to_conversation(
                   subscribe_to_conversation(subs, i, c), i, c)
                 = subscribe_to_conversation(subs, i, c)
            /\ i \notin subs[c].members
                   => unsubscribe_from_conversation(subs, i, c) = subs)
    /\ [][SubscribeStep /\ Head(mailbox).user \in MembersAtHead
              => subs' = subs /\ sessions' = sessions]_vars
    /\ [][UnsubscribeStep /\ Head(mailbox).user \notin MembersAtHead
              => subs' = subs /\ sessions' = sessions]_vars

\* C18, its case: a subscribe_conversation frame of an identity that was a
\* member already has been handled and the index is as it was.
C18_Witness ==
    \E k \in Conns : \E ev \in Delivered(k) :
        /\ ev.event = "subscribed"
        /\ IndexRequestHandled(ev.no)
        /\ ev.no \notin indexChanged
        /\ connId[k] \in subs[ev.conv].members

\* The store lists identity i for conversation c in the way its scope asks
\* for: as the client for scope client, among the providers for scope
\* provider.
Listed(i, c) ==
    /\ i \in DOMAIN Scope
    /\ \/ Scope[i] = "client" /\ IsClientOf(i, c)
       \/ Scope[i] = "provider" /\ IsProviderOf(i, c)

\* started() of connection k has finished and the server has handled every
\* subscription it asked for.
StartupProcessed(k) ==
    /\ connState[k] = "open"
    /\ \A n \in 1..Len(mailbox) :
           mailbox[n].type = "Subscribe" /\ mailbox[n].no = 0
               => mailbox[n].user # connId[k]

\* No connection of identity i has stopped.
NeverLeft(i) == \A j \in Conns : connId[j] = i => connState[j] # "closed"

\* C19: once a connection of identity i is established and its startup has
\* been processed, i is a member of every conversation the store lists it
\* for (as client for scope client, as provider for scope provider), and
\* connecting has made nobody a member of any other conversation.
C19_StartupSubscribesListed ==
    /\ \A k \in Conns :
           StartupProcessed(k) /\ NeverLeft(connId[k])
               => \A c \in ConvRows :
                      Listed(connId[k], c) => connId[k] \in subs[c].members
    /\ events = 0
           => \A c \in ConvIds : \A i \in subs[c].members : Listed(i, c)

\* The future of a "conversation_history" frame takes its first step.
HistoryFirstStepOf(t) ==
    /\ t \in tasks /\ t.kind = "conversation_history" /\ t.pc = "auth"
    /\ t \notin tasks' /\ connState' = connState

\* The reply to a history request that get_conversation_messages refused.
HistoryRejection(t) ==
    ErrorEv("Error fetching conversation history", t.conv, t.conn, t.no)

\* C20: a history request with page < 1 or limit outside 1..100 is rejected
\* with a diagnostic to the requester and without any store access for the
\* frame: its first step answers the requester with the rejection whatever
\* the store holds, no store call of the frame can have failed, and nothing
\* is sent to the server.
C20_InvalidPagingRejectedFirst ==
    [][\A t \in tasks :
          HistoryFirstStepOf(t) /\ ~ValidPaging(t.page, t.limit)
              => /\ recv' = SocketWrite(recv, t.conn, HistoryRejection(t))
                 /\ dbErr' = dbErr
                 /\ mailbox' = mailbox]_vars

\* The rows of conversation `conv` among the first n rows of messages: the
\* table only grows, so the first n rows are the table as it once was.
MessagesOfAt(conv, n) == {m \in 1..n : messages[m].conv = conv}

\* The page a query of the first n rows would return.
PageAt(conv, limit, offset, n) ==
    LET all == OrderByTimestampDesc(MessagesOfAt(conv, n)) IN
    SubSeq(all, offset + 1,
           IF offset + limit < Len(all) THEN offset + limit ELSE Len(all))

\* The last frame written to connection k in this step, if one was.
Written(k) == Len(recv'[k]) = Len(recv[k]) + 1
LastWritten(k) == recv'[k][Len(recv'[k])]

\* The future of history fetch t ends with a conversation_history_response.
HistoryAnswered(t) ==
    /\ t \in tasks /\ t.kind = "conversation_history" /\ t.pc = "select"
    /\ t \notin tasks'
    /\ Written(t.conn)
    /\ LastWritten(t.conn).event = "conversation_history_response"

\* C21: the response of a history fetch with valid page and limit describes
\* one state of the messages table: its messages are positions offset ..
\* offset+limit-1 of the conversation's rows by timestamp descending, its
\* total_count is the number of the conversation's rows in that same state
\* and has_more is offset+limit < total_count, also when rows are inserted
\* while the fetch runs.
C21_HistoryPageOfOneStoreState ==
    [][\A t \in tasks : HistoryAnswered(t) =>
          LET r == LastWritten(t.conn)
              offset == Offset(t.page, t.limit)
          IN \E n \in 0..Len(messages) :
                /\ r.messages = PageAt(t.conv, t.limit, offset, n)
                /\ Len(r.messages) <= t.limit
                /\ r.total_count = Cardinality(MessagesOfAt(t.conv, n))
                /\ r.has_more <=> offset + t.limit < r.total_count]_vars

\* The diagnostics the session writes for a frame it cannot dispatch: the
\* frame is no WsMessage, its event is unknown, or its params do not
\* deserialize to what the event needs.
FrameDiagnostics ==
    {"Invalid message format", "Unknown event type",
     "Invalid message data format", "Invalid new conversation data format",
     "Invalid conversation history data format",
     "Missing conversation_id parameter", "Invalid conversation ID format"}

\* This step handles an inbound frame of connection k by a diagnostic.
Diagnosed(k) ==
    /\ events' = events + 1
    /\ Written(k)
    /\ LastWritten(k).event = "text"
    /\ LastWritten(k).no = events'

\* C22: a frame that is no valid envelope, names an unknown event or
\* carries params that do not match its event is answered by a diagnostic
\* on the connection it arrived on and nowhere else; the step spawns no
\* future, sends the server nothing, changes neither the sessions map nor
\* the subscription index nor the store, and the connection stays open and
\* registered as it was.
C22_BadFrameOnlyDiagnosed ==
    [][\A k \in Conns : Diagnosed(k) =>
          /\ LastWritten(k).text \in FrameDiagnostics
          /\ LastWritten(k).from = k
          /\ recv' = [recv EXCEPT ![k] = Append(@, LastWritten(k))]
          /\ UNCHANGED <<sessions, subs, mailbox, tasks, storeVars>>
          /\ connState[k] = "open" /\ connState' = connState
          /\ connId' = connId]_vars

\* A connection was told "Invalid message format", is still open and
\* registered, and the other connection, open as well, was told nothing.
C22_Witness ==
    \E k, o \in Conns :
        /\ k # o
        /\ \E ev \in Delivered(k) :
               ev.event = "text" /\ ev.text = "Invalid message format"
        /\ connState[k] = "open" /\ sessions[connId[k]] = k
        /\ connState[o] = "open" /\ sessions[connId[o]] = o
        /\ recv[o] = <<>>

\* The handler of request t takes a step.
HandlerStep(t) == t \in http /\ t \notin http'

\* The public key of the identity request t names: the key it declares
\* (register), or the key the handler read from the identity's users row.
IdentityKey(t) ==
    IF t.endpoint = "register" THEN t.data.public_key
    ELSE IF t.pc # "lookup" THEN t.public_key
    ELSE IF t.endpoint = "request_verification_code"
    THEN IF PhoneInUse(t.data.phone_number)
         THEN users[CHOOSE i \in DOMAIN users :
                       users[i].phone_number = t.data.phone_number].public_key
         ELSE ""
    ELSE IF t.data.user_id \in DOMAIN users
    THEN users[t.data.user_id].public_key
    ELSE ""

\* The two gates of a signed request.
FreshAndSigned(t) ==
    /\ is_timestamp_valid(t.data.timestamp, now)
    /\ verify_signature(ToValue(t.endpoint, t.data), t.signature,
                        IdentityKey(t))

\* A step with an effect: a table changes, a credential is minted, or a
\* request is answered with success.
Effect ==
    \/ users' # users
    \/ refresh_tokens' # refresh_tokens
    \/ issued' # issued
    \/ reply' # reply /\ reply'.status = 200

\* C23: a step of register, request-verification-code, login, refresh,
\* logout or delete-account that changes a table, mints a credential or
\* answers with success belongs to a request whose timestamp passed the
\* freshness check and whose signature verifies over its payload under the
\* identity's public key; a request that fails either check changes nothing
\* and is issued nothing.
C23_EffectNeedsFreshSignedRequest ==
    [][Effect => \E t \in http : HandlerStep(t) /\ FreshAndSigned(t)]_vars

\* A login was answered with a credential, and the next request, whose
\* signature does not verify, was turned away with the tables as they were.
C23_Witness ==
    /\ \E i \in 1..Len(issued) : issued[i].no = 1
    /\ reply = Reply(2, 400, "Invalid signature")
    /\ http = {}

\* C24: the freshness check accepts a timestamp exactly when it parses and
\* now - timestamp is at least -5 s and at most 60 s, both ends included.
C24_FreshIffWithinClosedWindow ==
    (probe.fn = "is_timestamp_valid" /\ probe.done) =>
        (probe.result <=>
            /\ probe.timestamp.parsed
            /\ now - probe.timestamp.at >= -5
            /\ now - probe.timestamp.at <= 60)

\* The credential verify_and_decode_token was last applied to is one the
\* server minted for `user_id` at time `t`.
ProbedMint(user_id, t) ==
    /\ probe.fn = "verify_and_decode_token"
    /\ user_id \in DOMAIN users
    /\ probe.token =
           generate_signed_encrypted_token(user_id, users[user_id].scope, t)

\* C25: a credential minted for (id, scope) verifies to subject id and that
\* scope at every time before its expiry, issue time + 24 h, and fails as
\* expired at every time after its expiry.
C25_VerifiesBeforeExpiryExpiredAfter ==
    \A user_id \in DOMAIN users, t \in Instants :
        ProbedMint(user_id, t) =>
            /\ probe.at < t + Day =>
                   /\ probe.result.ok
                   /\ probe.result.claims.sub = user_id
                   /\ probe.result.claims.scope = users[user_id].scope
            /\ probe.at > t + Day =>
                   /\ ~probe.result.ok
                   /\ probe.result.error = "ExpiredSignature"

\* C26: no two credentials minted under the encryption key were encrypted
\* with the same nonce.
C26_NoNonceUsedTwice ==
    \A i, j \in 1..Len(issued) :
        (i # j /\ issued[i].token.key = issued[j].token.key) =>
            issued[i].token.nonce # issued[j].token.nonce

\* C27: a credential that decrypts, carries the server's signature and has
\* not expired, but names another issuer or another audience, is rejected.
C27_OtherIssuerOrAudienceRejected ==
    (/\ probe.fn = "verify_and_decode_token"
     /\ probe.token # Garbage
     /\ probe.token.key = "ENCRYPTION_KEY"
     /\ probe.token.nonce = FixedNonce
     /\ probe.token.signer = "JWT_PRIVATE_KEY"
     /\ probe.at < probe.token.claims.exp
     /\ \/ probe.token.claims.iss # "VeterinaryText"
        \/ probe.token.claims.aud # "VeterinaryText")
    => ~probe.result.ok

\* The payload with the members of every object in the opposite order.
RECURSIVE Reversed(_)
Reversed(value) ==
    LET Each(items) == [i \in 1..Len(items) |-> Reversed(items[i])]
        Back(members) ==
            [i \in 1..Len(members) |->
                Member(members[Len(members) + 1 - i].k,
                       Reversed(members[Len(members) + 1 - i].v))]
    IN CASE value.t = "array" -> JArr(Each(value.items))
         [] value.t = "object" -> JObj(Back(value.members))
         [] OTHER -> value

\* C28: for every JSON payload the verifier's canonical encoding does not
\* depend on the order of object keys at any level (they are sorted), and
\* it is byte-identical to the signing side's encoding of the payload, so
\* the signature made over the signer's encoding verifies on the server.
C28_SignerAndVerifierEncodeAlike ==
    (probe.fn = "to_canonical_json" /\ probe.done) =>
        /\ probe.server = to_canonical_json(Reversed(probe.value))
        /\ probe.server = probe.signer
        /\ probe.verified

\* The refresh tokens of `user_id` that are stored and not revoked.
LiveTokens(user_id) ==
    {r \in refresh_tokens : r.user_id = user_id /\ ~r.is_revoked}

\* C29: when the logins made so far have all been answered, no identity has
\* more than one refresh token that is not revoked; the tokens of its
\* earlier logins are gone.
C29_OneLiveRefreshTokenPerIdentity ==
    http = {} => \A user_id \in Ids : Cardinality(LiveTokens(user_id)) <= 1

\* A step of the refresh handler working on request t.
RefreshStep(t) == t \in http /\ t.endpoint = "refresh" /\ t \notin http'

\* The token request t presents is stored for the identity t names and is
\* not revoked.
Redeemable(t) ==
    \E r \in refresh_tokens :
        /\ r.token = t.data.refresh_token
        /\ r.user_id = t.data.user_id
        /\ ~r.is_revoked

\* Request t is signed over its payload by the identity it names.
SignedByIdentity(t) ==
    /\ t.data.user_id \in DOMAIN users
    /\ verify_signature(ToValue(t.endpoint, t.data), t.signature,
                        users[t.data.user_id].public_key)

\* The step answers request t with one of `statuses`.
Answered(t, statuses) ==
    /\ http' = http \ {t}
    /\ reply'.no = t.no /\ reply'.status \in statuses

\* The step takes the handler of request t on to `pc`.
Goes(t, pc) == \E next \in http' : next.no = t.no /\ next.pc = pc

StoredFor(token, user_id, rows) ==
    \E r \in rows : r.token = token /\ r.user_id = user_id

\* Every stored token that a login drew belongs to a login that has
\* arrived and is past its INSERT.
DrawnByFinishedLogin ==
    \A r \in refresh_tokens :
        r.token > 10 =>
            /\ r.token - 10 <= requests
            /\ \A t \in http : generate_refresh_token(t) # r.token

\* C31: a logout of token k for identity i that is answered 200 leaves k
\* not stored for i; a token that is not stored stays so, the only rows
\* ever added being the new token of a login; and a refresh whose lookup
\* runs while its token is not stored for its identity is answered 401 and
\* mints nothing.  A logout whose token is not stored for i is answered 404
\* and leaves the stored credentials as they are.  (500 answers a failed
\* store call, with nothing changed.)
C31_LoggedOutTokenNeverRedeemed ==
    /\ []DrawnByFinishedLogin
    /\ [][\A t \in http : HandlerStep(t) =>
          LET token == t.data.refresh_token
              user_id == t.data.user_id
          IN
          /\ (t.endpoint = "logout" /\ t.pc = "delete") =>
                 IF StoredFor(token, user_id, refresh_tokens)
                 THEN \/ /\ Answered(t, {200})
                         /\ ~StoredFor(token, user_id, refresh_tokens')
                         /\ refresh_tokens' \subseteq refresh_tokens
                      \/ /\ Answered(t, {500})
                         /\ refresh_tokens' = refresh_tokens
                 ELSE /\ Answered(t, {404, 500})
                      /\ refresh_tokens' = refresh_tokens
          /\ (/\ t.endpoint = "refresh" /\ t.pc = "lookup"
              /\ ~StoredFor(token, user_id, refresh_tokens)) =>
                 /\ Answered(t, {401, 500})
                 /\ issued' = issued /\ refresh_tokens' = refresh_tokens
          /\ \A r \in refresh_tokens' :
                 ~StoredFor(r.token, r.user_id, refresh_tokens) =>
                     /\ t.endpoint = "login"
                     /\ r.token = generate_refresh_token(t)
       ]_vars

\* c1 has logged out token 1, and its next request, a refresh presenting
\* token 1 under a valid signature, is about to be looked up.
C31_Witness ==
    /\ reply = Reply(1, 200, "Logged out successfully")
    /\ ~StoredFor(1, "c1", refresh_tokens)
    /\ \E t \in http :
           /\ t.endpoint = "refresh" /\ t.pc = "lookup"
           /\ t.data.refresh_token = 1 /\ t.data.user_id = "c1"
           /\ SignedByIdentity(t)

\* C32: a call to a bearer endpoint that has no Authorization header, a
\* header that is not `Bearer <token>`, or a token that does not verify is
\* answered 401 by the first step taken for it, before any store call.
C32_UnauthenticatedCallAnswered401 ==
    [][\A t \in http :
          (/\ HandlerStep(t) /\ t.endpoint \in BearerEndpoints
           /\ t.pc = "extract" /\ ~BearerOk(t.header)) =>
              Answered(t, {401})
      ]_vars

\* Session k stops in this step.
Stops(k) == connState[k] = "open" /\ connState'[k] = "closed"

\* C33: the stop of a session, which sends its Disconnect, cancels no event
\* handling in flight: every send_message future that was running is still
\* there to persist its Message and broadcast message_sent.
C33_DisconnectCancelsNoSend ==
    [][\A k \in Conns :
          Stops(k) => \A t \in tasks : t.kind = "message" => t \in tasks'
      ]_vars

\* The session takes a subscribe_conversation frame: the step spawns the
\* presence future t of the frame.
SubscribeFrame(t) == t \notin tasks /\ t \in tasks' /\ t.kind = "subscribe"

\* The presence future t ends in this step with its profile lookup failed.
ProfileFails(t) ==
    /\ t \in tasks /\ t.kind \in {"subscribe", "unsubscribe"}
    /\ t \notin tasks' /\ connState' = connState
    /\ t.user \notin DOMAIN Scope \/ Failure(t, "profile") \in dbErr'

\* The frames other than "subscribed" that inbound frame `no` has caused.
OtherThanAck(no, ack) ==
    {ev \in InFlight \cup UNION {Delivered(k) : k \in Conns} :
        ev.no = no /\ ev.event # ack}

\* C34: a subscribe_conversation frame of a connected identity that names a
\* conversation id, whether or not a conversation of that id exists or
\* lists the identity, sends the server the subscription of the identity
\* and writes "subscribed" to the requester's socket and to no other; the
\* server, taking the subscription, puts the identity into the member set;
\* "subscribed" is only ever on the connection that asked for it; and a
\* failed profile lookup leaves the mailbox (the subscription in it or
\* handled), the index and the sockets as they are, so that neither
\* user_joined nor an error follows.
C34_SubscribeUncheckedAndAcked ==
    /\ [][\A t \in tasks' :
             SubscribeFrame(t) =>
                 /\ mailbox' = Append(mailbox,
                                      MSubscribe(connId[t.conn], t.conv, t.no))
                 /\ recv' = [recv EXCEPT ![t.conn] =
                     Append(@, Ev("subscribed", t.conv, 0, t.conn, t.no))]
                 /\ subs' = subs
         ]_vars
    /\ [][SubscribeStep =>
             Head(mailbox).user \in subs'[Head(mailbox).conv].members]_vars
    /\ [](\A k \in Conns : \A ev \in Delivered(k) :
             ev.event = "subscribed" => ev.from = k)
    /\ [][\A t \in tasks :
             ProfileFails(t) =>
                 mailbox' = mailbox /\ subs' = subs /\ recv' = recv]_vars
    /\ [](\A f \in dbErr :
             f.kind = "subscribe" /\ f.call = "profile"
                 => OtherThanAck(f.no, "subscribed") = {})

\* An identity with no users row has subscribed to a conversation id under
\* which no conversation exists: it holds the ack, it is in the member set,
\* its profile lookup is over, and nothing else came of the frame.
C34_Witness ==
    \E k \in Conns : \E ev \in Delivered(k) :
        /\ ev.event = "subscribed"
        /\ connId[k] \notin DOMAIN Scope
        /\ ev.conv \notin ConvRows
        /\ connId[k] \in subs[ev.conv].members
        /\ tasks = {} /\ mailbox = <<>>
        /\ OtherThanAck(ev.no, "subscribed") = {}

\* The session takes an unsubscribe_conversation frame: the step spawns the
\* presence future t of the frame.
UnsubscribeFrame(t) ==
    t \notin tasks /\ t \in tasks' /\ t.kind = "unsubscribe"

\* The user_left presence broadcast of the unsubscribe frame of future t.
UserLeft(t) ==
    MBroadcastTo(t.conv, Ev("user_left", t.conv, 0, t.conn, t.no))

\* In the server's mailbox no user_left is ahead of the removal that the
\* same frame asked for.
RemovalAheadOfUserLeft ==
    \A p, q \in 1..Len(mailbox) :
        /\ mailbox[p].type = "Unsubscribe"
        /\ mailbox[q].type = "BroadcastToConversation"
        /\ mailbox[q].ev.event = "user_left"
        /\ mailbox[q].ev.no = mailbox[p].no
        => p < q

\* C35: an unsubscribe_conversation frame sends the server the removal of
\* the requester and writes "unsubscribed" to the requester's socket; the
\* removal is ahead of the frame's user_left in the server's mailbox and
\* takes the requester out of the member set; the frame's presence future,
\* when it runs to its end, sends the user_left broadcast; and the server gives a
\* user_left exactly once to the live channel of every member that remains
\* and to no one else, so not to the requester unless it is a member again.
C35_UnsubscribeRemovesThenAnnounces ==
    /\ []RemovalAheadOfUserLeft
    /\ [][\A t \in tasks' :
             UnsubscribeFrame(t) =>
                 /\ mailbox' = Append(mailbox,
                        MUnsubscribe(connId[t.conn], t.conv, t.no))
                 /\ recv' = [recv EXCEPT ![t.conn] =
                     Append(@, Ev("unsubscribed", t.conv, 0, t.conn, t.no))]
         ]_vars
    /\ [][UnsubscribeStep =>
             Head(mailbox).user \notin subs'[Head(mailbox).conv].members]_vars
    /\ [][\A t \in tasks :
             t.kind = "unsubscribe" /\ t \notin tasks'
                                    /\ connState' = connState
                 => mailbox' = Append(mailbox, UserLeft(t))]_vars
    /\ [][FanOut /\ Head(mailbox).ev.event = "user_left" =>
             \A k \in Conns :
                 IF LiveMemberChannel(k) THEN Receives(k)
                 ELSE recv'[k] = recv[k]]_vars

\* The auto-subscribe of inbound frame `no` of connection k for conversation
\* c is in the server's mailbox ahead of position q, or has been applied.
SubscribedAhead(k, c, no, q) ==
    \/ \E p \in 1..(q - 1) : mailbox[p] = MSubscribe(connId[k], c, no)
    \/ connId[k] \in subs[c].members

\* The server is taking the message_sent broadcast of a send from its
\* mailbox.
FanOutOfOwn == FanOut /\ Head(mailbox).ev.event = "message_sent"

\* C36 as stated: the requester of a successful send_message is a member
\* before its broadcast is processed, and when it is processed a requester
\* whose session is still running gets its own message_sent.
C36_ConnectedRequesterReceivesOwn ==
    /\ [](\A q \in 1..Len(mailbox) :
            mailbox[q].type = "BroadcastToConversation"
                /\ mailbox[q].ev.event = "message_sent"
            => SubscribedAhead(mailbox[q].ev.from, mailbox[q].conv,
                               mailbox[q].ev.no, q))
    /\ [][FanOutOfOwn /\ connState[Head(mailbox).ev.from] = "open"
             => Receives(Head(mailbox).ev.from)]_vars

\* C36, amended: with sessions that stay connected and do not unsubscribe,
\* the auto-subscribe of a send is in the server's mailbox, or applied, from
\* the membership check on, so ahead of the send's message_sent; when the
\* server processes the message_sent the requester's identity is a member,
\* and the requester gets it, once, exactly when its connection is the
\* channel registered for its identity (a later connect of the same
\* identity takes the event to the new channel).
C36_RegisteredRequesterReceivesOwn ==
    /\ [](/\ \A q \in 1..Len(mailbox) :
               mailbox[q].type = "BroadcastToConversation"
                   /\ mailbox[q].ev.event = "message_sent"
               => SubscribedAhead(mailbox[q].ev.from, mailbox[q].conv,
                                  mailbox[q].ev.no, q)
          /\ \A t \in tasks :
               t.kind = "message" /\ t.pc \in {"insert", "update"}
               => SubscribedAhead(t.conn, t.conv, t.no, Len(mailbox) + 1))
    /\ [][FanOutOfOwn =>
             LET k == Head(mailbox).ev.from IN
                 /\ connId[k] \in MembersAtHead
                 /\ IF sessions[connId[k]] = k /\ connState[k] = "open"
                    THEN Receives(k)
                    ELSE recv'[k] = recv[k]]_vars

\* C36, its case: a connection holds the message_sent of its own send, and
\* it was that send's auto-subscribe that made its identity a member.
C36_Witness ==
    \E k \in Conns : \E ev \in Delivered(k) :
        /\ ev.event = "message_sent"
        /\ ev.from = k
        /\ ev.no \in indexChanged

\* Session k is running and is not the channel registered for its identity.
Orphaned(k) == connState[k] = "open" /\ sessions[connId[k]] # k

\* C37: the server, taking Disconnect(i), leaves i without a channel and in
\* no member set whichever connection is registered for i, so every running
\* session of i is then unregistered; a running session that is not the
\* registered channel of its identity stays so for as long as it runs, and
\* nothing the server processes is delivered to it.
C37_DisconnectIgnoresRegistrant ==
    /\ [][DisconnectStep =>
             LET i == Head(mailbox).id IN
             /\ sessions'[i] = NoConn
             /\ \A c \in ConvIds : i \notin subs'[c].members
             /\ \A k \in Conns :
                    connId[k] = i /\ connState[k] = "open"
                        => connState'[k] = "open" /\ sessions'[i] # k]_vars
    /\ [][\A k \in Conns :
             Orphaned(k) /\ connState'[k] = "open"
                 => sessions'[connId'[k]] # k]_vars
    /\ [][ServerTakes =>
             \A k \in Conns : Orphaned(k) => recv'[k] = recv[k]]_vars

\* C37, its case: two sessions of one identity, the first stopped and its
\* Disconnect processed, the second still running with no channel registered
\* for the identity; the second has sent a message that is persisted and
\* whose broadcast has been processed, and holds no message_sent.
C37_Witness ==
    \E k, j \in Conns :
        /\ k # j /\ connId[k] = connId[j]
        /\ connState[k] = "closed" /\ connState[j] = "open"
        /\ NoDisconnectPending(connId[j])
        /\ sessions[connId[j]] = NoConn
        /\ \E m \in 1..Len(messages) : messages[m].conn = j
        /\ tasks = {} /\ mailbox = <<>> /\ dbErr = {}
        /\ \A ev \in Delivered(j) : ev.event # "message_sent"

\* Identity u is a member of conversation c and has no registered channel.
MemberWithoutChannel(u, c) ==
    u \in subs[c].members /\ sessions[u] = NoConn

\* C38: a member without a registered channel is passed over when the
\* server processes a broadcast to its conversation: the event goes to the
\* registered channels of members only and the member stays in the set;
\* and a member, with a channel or without, leaves a member set only when
\* the server takes an Unsubscribe of that identity for that conversation
\* or a Disconnect of that identity.
C38_ChannellessMemberSkippedAndKept ==
    /\ [][FanOut =>
             /\ \A k \in Conns :
                    recv'[k] # recv[k]
                        => \E v \in MembersAtHead : sessions[v] = k
             /\ \A u \in Ids :
                    MemberWithoutChannel(u, Head(mailbox).conv)
                        => u \in subs'[Head(mailbox).conv].members]_vars
    /\ [][\A u \in Ids : \A c \in ConvIds :
             u \in subs[c].members /\ u \notin subs'[c].members
                 => \/ /\ UnsubscribeStep
                       /\ Head(mailbox).user = u /\ Head(mailbox).conv = c
                    \/ DisconnectStep /\ Head(mailbox).id = u]_vars

\* C38, its case: a provider that never connected is a member of the
\* conversation a client has created naming it; the invitation has been
\* processed and reached the creator, and the provider is still a member.
C38_Witness ==
    \E c \in ConvRows : \E u \in Ids :
        /\ IsProviderOf(u, c)
        /\ \A k \in Conns : connId[k] # u
        /\ MemberWithoutChannel(u, c)
        /\ \E k \in Conns : \E ev \in Delivered(k) :
               ev.event = "new_conversation_invitation" /\ ev.conv = c
        /\ tasks = {} /\ mailbox = <<>>

\* The session of connection k takes an inbound frame in this step.
FrameOf(k) ==
    /\ events' = events + 1
    /\ recv'[k] # recv[k] \/ \E t \in tasks' \ tasks : t.conn = k

\* The frames and futures that an inbound frame of connection k has caused.
CausedBy(k) ==
    {ev \in InFlight \cup UNION {Delivered(j) : j \in Conns} : ev.from = k}

\* C39: a session takes an inbound frame only when started() is through:
\* the server has taken its Connect, which registered it, and the
\* auto-subscribe requests are in the server's mailbox or handled; a
\* session still starting has caused no event and runs no future; and the
\* mailbox is first-in first-out, a step other than the server's only
\* appending to it, so what the frame enqueues is behind the auto-subscribe
\* requests.
C39_NoFrameBeforeStartup ==
    /\ [][\A k \in Conns :
             FrameOf(k) =>
                 /\ connState[k] = "open"
                 /\ \A n \in 1..Len(mailbox) :
                        mailbox[n].type = "Connect" => mailbox[n].conn # k]_vars
    /\ [](\A k \in Conns :
             connState[k] \in {"new", "starting", "autosub"}
                 => CausedBy(k) = {} /\ \A t \in tasks : t.conn # k)
    /\ [][\A k \in Conns :
             connState'[k] = "autosub" /\ connState[k] # "autosub"
                 => /\ ConnectStep /\ Head(mailbox).conn = k
                    /\ sessions'[connId[k]] = k]_vars
    /\ [][\A k \in Conns :
             connState'[k] = "open" /\ connState[k] # "open"
                 => /\ connState[k] = "autosub"
                    /\ \E a, b \in BOOLEAN :
                           mailbox' = mailbox
                               \o AutoSubscriptions(connId[k], a, b)]_vars
    /\ [][mailbox' # mailbox =>
             \/ ServerTakes
             \/ /\ Len(mailbox') > Len(mailbox)
                /\ SubSeq(mailbox', 1, Len(mailbox)) = mailbox]_vars

\* C39, its case: the first frame of a registered connection has put a
\* subscription into the server's mailbox, behind an auto-subscribe request
\* of the same session that the server has not taken yet.
C39_Witness ==
    \E k \in Conns : \E p, q \in 1..Len(mailbox) :
        /\ connState[k] = "open" /\ sessions[connId[k]] = k
        /\ \A j \in Conns \ {k} : connState[j] = "new"
        /\ p < q
        /\ mailbox[p].type = "Subscribe" /\ mailbox[p].no = 0
        /\ mailbox[p].user = connId[k]
        /\ mailbox[q].type \in {"Subscribe", "Unsubscribe"}
        /\ mailbox[q].no > 0 /\ mailbox[q].user = connId[k]

\* The call of get_conversation_messages has returned, or panicked.
PagingDone == probe.fn = "get_conversation_messages" /\ probe.done

\* C40: for every page >= 1 and limit in 1..100 the call computes
\* (page - 1) * limit and offset + limit within i32: it does not panic on
\* an overflow and it takes neither the OFFSET nor has_more from a wrapped
\* value, so that has_more says whether rows follow the page.
C40_PagingStaysInRange ==
    PagingDone /\ ValidPaging(probe.page, probe.limit)
        => /\ probe.result.outcome = "Ok"
           /\ ~probe.result.wrapped
           /\ probe.result.offset >= 0
           /\ probe.result.has_more
                  <=> probe.result.offset < probe.total_count - probe.limit
====
